---- MODULE Spec2Model ----
(***************************************************************************)
(* Model of the msal-browser BrowserCacheManager (temporary request cache  *)
(* and entity store) and the msal-common Authority.                        *)
(*                                                                         *)
(* Strings are sequences of tokens.  A token is a tuple of TLA+ strings:   *)
(* <<s>> is the literal text s, <<"b64", id, kind>> is the base64 text of  *)
(* a library state object {id, meta: {interactionType: kind}}, and         *)
(* <<"req", authority, tag>> is the base64 text of a serialized            *)
(* AuthorizationCodeRequest.  String.indexOf is the search for a           *)
(* contiguous run of tokens.  null and "" are both the empty sequence:     *)
(* every reader in the source tests them with StringUtils.isEmpty or by    *)
(* truthiness.                                                             *)
(***************************************************************************)
EXTENDS Integers, Sequences, FiniteSets, TLC

VARIABLES
    storage,                \* browserStorage: key -> value (IWindowStorage)
    cookies,                \* document.cookie: cookie name -> value
    storeAuthStateInCookie, \* cacheConfig.storeAuthStateInCookie
    last,                   \* the last operation, its arguments and outcome
    pc,                     \* position of each flow
    fstate,                 \* the state string each flow was started with
    fnonce,                 \* the nonce each flow was started with
    fauth,                  \* the authority each flow was started with
    freq,                   \* the encoded request each flow cached
    nUpdates,               \* updateCacheEntries calls made by each flow
    registry,               \* TrustedAuthority: host -> cloud discovery metadata
    canonicalAuthority,     \* Authority._canonicalAuthority
    protocolMode,           \* Authority.authorityProtocolMode
    tenantDiscoveryResponse, \* Authority.tenantDiscoveryResponse
    rpc,                    \* position of each resolveEndpointsAsync call
    rhost,                  \* the host each call read when it started
    rlog,                   \* the network requests each call has issued
    nResolves,              \* resolveEndpointsAsync calls started
    succeeded,              \* some resolveEndpointsAsync call has returned
    nPopulated,             \* times a fetched list left the registry non-empty
    alast,                  \* the last Authority operation and its outcome
    elast,                  \* the last entity operation and its outcome
    nWrites,                \* entity and raw writes made
    handling                \* handleCodeResponse of each flow: position and record

cacheVars == <<storage, cookies, storeAuthStateInCookie, last>>
flowVars == <<pc, fstate, fnonce, fauth, freq, nUpdates>>
authVars == <<registry, canonicalAuthority, protocolMode, tenantDiscoveryResponse,
              rpc, rhost, rlog, nResolves, succeeded, nPopulated, alast>>
entVars == <<elast, nWrites>>
vars == <<cacheVars, flowVars, authVars, entVars, handling>>

----------------------------------------------------------------------------
(* Bounds and input sets *)

MaxUpdates == 2
MaxResolves == 3
MaxWrites == 2

Flows == {"f1", "f2"}
Kinds == {"redirect", "popup"}
UserStates == {"", "u"}
Nonces == {"N1", "N2"}
Authorities == {"https://login.example.com/common/"}
clientId == "cid"

----------------------------------------------------------------------------
(* Strings *)

T(s) == <<s>>
Lit(s) == <<T(s)>>
Null == <<>>
NoKey == <<>>

isEmpty(str) == Len(str) = 0

MatchAt(t, s, i) == \A j \in 1..Len(s) : t[i + j - 1] = s[j]

\* t.indexOf(s) !== -1
Contains(t, s) == \E i \in 1..(Len(t) - Len(s) + 1) : MatchAt(t, s, i)

startsWith(t, s) == Len(s) <= Len(t) /\ MatchAt(t, s, 1)

CACHE_PREFIX == "msal"
ADAL_ID_TOKEN == "adal.idtoken"

AUTHORITY == "authority"
REQUEST_STATE == "request.state"
NONCE_IDTOKEN == "nonce.id_token"
ORIGIN_URI == "request.origin"
URL_HASH == "urlHash"
REQUEST_PARAMS == "request.params"
INTERACTION_STATUS_KEY == "interaction.status"

----------------------------------------------------------------------------
(* ProtocolUtils: the opaque state value *)

Blob(id, kind) == <<"b64", id, kind>>

setRequestState(id, kind, user) ==
    <<Blob(id, kind)>> \o (IF user = "" THEN <<>> ELSE <<T("|"), T(user)>>)

\* parseRequestState succeeds: a base64 library state carrying an id, then
\* nothing or the delimiter and the caller's state.
stateParses(s) ==
    /\ Len(s) >= 1
    /\ Len(s[1]) = 3
    /\ s[1][1] = "b64"
    /\ s[1][2] # ""
    /\ Len(s) > 1 => (s[2] = T("|") /\ Len(s) >= 3)

parseRequestState(s) ==
    [id |-> s[1][2],
     interactionType |-> s[1][3],
     userRequestState |-> SubSeq(s, 3, Len(s))]

----------------------------------------------------------------------------
(* Key generation *)

\* The text of a JSON value is the one token <<"json", type, ...>>; for an
\* object the properties follow the type, in the order of FieldNames.
FieldNames ==
    <<"homeAccountId", "environment", "realm", "clientId", "credentialType",
      "target", "familyId", "username", "secret", "failedRequests", "throttleTime">>

Fields == {FieldNames[i] : i \in 1..Len(FieldNames)}

FieldIndex(f) == CHOOSE i \in 1..Len(FieldNames) : FieldNames[i] = f

\* An object with no property set; an unset property is "".
NoFields == [f \in Fields |-> ""]

JSONparses(text) ==
    /\ Len(text) = 1
    /\ Len(text[1]) >= 2
    /\ text[1][1] = "json"

JSONparse(text) ==
    [type |-> text[1][2],
     fields |-> IF text[1][2] = "object" /\ Len(text[1]) = 2 + Len(FieldNames)
                THEN [f \in Fields |-> text[1][2 + FieldIndex(f)]]
                ELSE NoFields]

JSONstringify(obj) ==
    <<(<<"json", "object">> \o [i \in 1..Len(FieldNames) |-> obj[FieldNames[i]]])>>

NullJson == [type |-> "null", fields |-> NoFields]

Parsed(threw, json) == [threw |-> threw, json |-> json]

\* A parse with no try/catch around it.
validateAndParseJson_unguarded(jsonValue) ==
    IF ~JSONparses(jsonValue)
    THEN Parsed(TRUE, NullJson)
    ELSE IF JSONparse(jsonValue).type \in {"object", "array"}
         THEN Parsed(FALSE, JSONparse(jsonValue))
         ELSE Parsed(FALSE, NullJson)

\* typeof parsedJson === "object" holds of objects and arrays; null is falsy.
validateAndParseJson(jsonValue) ==
    IF ~JSONparses(jsonValue)
    THEN Parsed(FALSE, NullJson)
    ELSE IF JSONparse(jsonValue).type \in {"object", "array"}
         THEN Parsed(FALSE, JSONparse(jsonValue))
         ELSE Parsed(FALSE, NullJson)

isJsonObjectText(text) == validateAndParseJson(text).json # NullJson

JSONstringifyString(str) == <<T("\"")>> \o str \o <<T("\"")>>

generateCacheKey(key) ==
    IF ~isJsonObjectText(key)
    THEN IF startsWith(key, Lit(CACHE_PREFIX)) \/ startsWith(key, Lit(ADAL_ID_TOKEN))
         THEN key
         ELSE <<T(CACHE_PREFIX), T("."), T(clientId), T(".")>> \o key
    ELSE JSONstringifyString(key)

\* An authority key namespaced by the caller's state.
generateAuthorityKey_byCallerState(stateString) ==
    generateCacheKey(<<T(AUTHORITY), T(".")>> \o parseRequestState(stateString).userRequestState)

generateAuthorityKey(stateString) ==
    generateCacheKey(<<T(AUTHORITY), T("."), T(parseRequestState(stateString).id)>>)

\* A nonce key that is not namespaced by the correlation id.
generateNonceKey_shared(stateString) ==
    generateCacheKey(Lit(NONCE_IDTOKEN))

generateNonceKey(stateString) ==
    generateCacheKey(<<T(NONCE_IDTOKEN), T("."), T(parseRequestState(stateString).id)>>)

generateStateKey(stateString) ==
    generateCacheKey(<<T(REQUEST_STATE), T("."), T(parseRequestState(stateString).id)>>)

\* Generators that make a key of whatever the decoding left them.
generatedKey_partial(name, stateString) ==
    [threw |-> FALSE,
     key |-> IF stateParses(stateString)
             THEN generateCacheKey(<<T(name), T("."), T(parseRequestState(stateString).id)>>)
             ELSE generateCacheKey(<<T(name), T("."), T("undefined")>>)]

\* generateAuthorityKey, generateNonceKey and generateStateKey as their caller
\* sees them: the error of parseRequestState leaves the generator before a
\* key is made.
generatedKey(name, stateString) ==
    IF ~stateParses(stateString)
    THEN [threw |-> TRUE, key |-> <<>>]
    ELSE [threw |-> FALSE,
          key |-> IF name = AUTHORITY THEN generateAuthorityKey(stateString)
                  ELSE IF name = NONCE_IDTOKEN THEN generateNonceKey(stateString)
                  ELSE generateStateKey(stateString)]

----------------------------------------------------------------------------
(* The two stores.  A cache is the pair [s |-> browserStorage, k |-> cookies] *)

Put(m, key, v) == [x \in (DOMAIN m) \cup {key} |-> IF x = key THEN v ELSE m[x]]
Drop(m, key) == [x \in (DOMAIN m) \ {key} |-> m[x]]

getItem(c, key) == IF key \in DOMAIN c.s THEN c.s[key] ELSE Null

setItem(c, key, value) == [c EXCEPT !.s = Put(c.s, key, value)]

\* An empty cookie value reads back as "": the cookie is as good as absent.
setItemCookie(c, name, value) ==
    [c EXCEPT !.k = IF isEmpty(value) THEN Drop(c.k, name) ELSE Put(c.k, name, value)]

getItemCookie(c, name) == IF name \in DOMAIN c.k THEN c.k[name] ELSE Null

clearItemCookie(c, name) == [c EXCEPT !.k = Drop(c.k, name)]

\* A lookup that tries the primary store before the cookie.
getTemporaryCache_storageFirst(c, cacheKey, generateKey) ==
    LET key == IF generateKey THEN generateCacheKey(cacheKey) ELSE cacheKey
    IN  IF ~isEmpty(getItem(c, key))
        THEN getItem(c, key)
        ELSE IF storeAuthStateInCookie THEN getItemCookie(c, key) ELSE Null

getTemporaryCache(c, cacheKey, generateKey) ==
    LET key == IF generateKey THEN generateCacheKey(cacheKey) ELSE cacheKey
    IN  IF storeAuthStateInCookie /\ ~isEmpty(getItemCookie(c, key))
        THEN getItemCookie(c, key)
        ELSE getItem(c, key)

setTemporaryCache(c, cacheKey, value, generateKey) ==
    LET key == IF generateKey THEN generateCacheKey(cacheKey) ELSE cacheKey
        c1 == setItem(c, key, value)
    IN  IF storeAuthStateInCookie THEN setItemCookie(c1, key, value) ELSE c1

\* A removal that leaves the cookie behind.
removeItem_storageOnly(c, key) == [c EXCEPT !.s = Drop(c.s, key)]

removeItem(c, key) ==
    LET c1 == [c EXCEPT !.s = Drop(c.s, key)]
    IN  IF storeAuthStateInCookie THEN clearItemCookie(c1, key) ELSE c1

getKeys(c) == DOMAIN c.s

----------------------------------------------------------------------------
(* Entity store *)

EntityKinds ==
    {"Account", "IdToken", "AccessToken", "RefreshToken", "AppMetadata",
     "ServerTelemetry", "Throttling"}

\* The kinds whose setter takes the key from its caller
KeyedByCaller == {"ServerTelemetry", "Throttling"}

Entity(kind, set) ==
    [f \in Fields |-> IF f \in DOMAIN set THEN set[f] ELSE ""]

Credential(type, set) ==
    Entity(type, [homeAccountId |-> "uid", environment |-> "env", clientId |-> "cid",
                  credentialType |-> type] @@ set)

\* The entities written in the model
EntitiesOf(kind) ==
    CASE kind = "Account" ->
            {Entity(kind, [homeAccountId |-> "uid", environment |-> "env",
                           realm |-> t, username |-> "ann"]) : t \in {"t1", "t2"}}
      [] kind = "IdToken" ->
            {Credential(kind, [realm |-> "t1", secret |-> x]) : x \in {"idt1", "idt2"}}
      [] kind = "AccessToken" ->
            {Credential(kind, [realm |-> "t1", target |-> x, secret |-> "at"]) :
                x \in {"s1", "s2"}}
      [] kind = "RefreshToken" ->
            {Credential(kind, [familyId |-> x, secret |-> "rt"]) : x \in {"", "1"}}
      [] kind = "AppMetadata" ->
            {Entity(kind, [environment |-> "env", clientId |-> "cid", familyId |-> x]) :
                x \in {"1", ""}}
      [] kind = "ServerTelemetry" ->
            {Entity(kind, [failedRequests |-> x]) : x \in {"0", "1"}}
      [] kind = "Throttling" ->
            {Entity(kind, [throttleTime |-> "100"])}

\* The keys callers pass for the kinds keyed by the caller
SuppliedKeys(kind) ==
    CASE kind = "ServerTelemetry" -> {<<T("server-telemetry"), T("-"), T(clientId)>>}
      [] kind = "Throttling" ->
            {<<T("throttling"), T("."), T(h)>> : h \in {"hash1", "hash2"}}
      [] OTHER -> {NoKey}

Join(a, b) == a \o <<T("-")>> \o b

\* generateAccountKey, generateCredentialKey, generateAppMetadataKey
generateEntityKey(kind, e) ==
    CASE kind = "Account" ->
            Join(Lit(e.homeAccountId), Join(Lit(e.environment), Lit(e.realm)))
      [] kind = "AppMetadata" ->
            Join(Lit("appmetadata"), Join(Lit(e.environment), Lit(e.clientId)))
      [] OTHER ->
            Join(Lit(e.homeAccountId), Join(Lit(e.environment),
                Join(Lit(e.credentialType),
                    Join(Lit(IF kind = "RefreshToken" /\ e.familyId # ""
                             THEN e.familyId ELSE e.clientId),
                        Join(Lit(e.realm), Lit(e.target))))))

RequiredFields(kind) ==
    CASE kind = "Account" -> {"homeAccountId", "environment", "realm", "username"}
      [] kind = "IdToken" ->
            {"homeAccountId", "environment", "credentialType", "clientId", "realm", "secret"}
      [] kind = "AccessToken" ->
            {"homeAccountId", "environment", "credentialType", "clientId", "realm",
             "target", "secret"}
      [] kind = "RefreshToken" ->
            {"homeAccountId", "environment", "credentialType", "clientId", "secret"}
      [] kind = "AppMetadata" -> {"environment", "clientId"}
      [] kind = "ServerTelemetry" -> {"failedRequests"}
      [] kind = "Throttling" -> {"throttleTime"}

\* isAccountEntity, isIdTokenEntity, ..., isThrottlingEntity
isEntity(kind, key, entity) ==
    /\ \A f \in RequiredFields(kind) : entity[f] # ""
    /\ kind \in {"IdToken", "AccessToken", "RefreshToken"} => entity.credentialType = kind

\* CacheManager.toObject(new Kind(), json): the properties of json, copied
toObject(kind, json) == json.fields

ReadResult(threw, found, entity) == [threw |-> threw, found |-> found, entity |-> entity]

Absent == ReadResult(FALSE, FALSE, NoFields)

\* getAccount, getIdTokenCredential, getAccessTokenCredential,
\* getRefreshTokenCredential, getAppMetadata, getServerTelemetry, getThrottlingCache
getEntity(c, kind, key) ==
    LET value == getItem(c, key)
    IN  IF isEmpty(value)
        THEN Absent
        ELSE LET parsed == validateAndParseJson(value)
                 entity == toObject(kind, parsed.json)
             IN  IF parsed.threw
                 THEN ReadResult(TRUE, FALSE, NoFields)
                 ELSE IF isEntity(kind, key, entity)
                      THEN ReadResult(FALSE, TRUE, entity)
                      ELSE Absent

\* A setter of the five self-keyed kinds that takes its key from the caller.
entityKey_wrongGenerator(kind, suppliedKey, e) ==
    IF kind \in KeyedByCaller THEN suppliedKey ELSE generateEntityKey("Account", e)

\* The key a setter stores under: the caller's for setServerTelemetry and
\* setThrottlingCache, the entity's own for the others.
entityKey(kind, suppliedKey, e) ==
    IF kind \in KeyedByCaller THEN suppliedKey ELSE generateEntityKey(kind, e)

\* A setter that stores the entity without serializing it.
setEntity_unserialized(c, kind, suppliedKey, e) ==
    setItem(c, entityKey(kind, suppliedKey, e), Lit("[object Object]"))

\* A setter that fills the fields the entity leaves empty from the entry
\* already stored under its key.
setEntity_merged(c, kind, suppliedKey, e) ==
    LET key == entityKey(kind, suppliedKey, e)
        old == getEntity(c, kind, key)
    IN  setItem(c, key,
                JSONstringify(IF old.found
                              THEN [f \in Fields |->
                                       IF e[f] # "" THEN e[f] ELSE old.entity[f]]
                              ELSE e))

\* setAccount, setIdTokenCredential, setAccessTokenCredential,
\* setRefreshTokenCredential, setAppMetadata, setServerTelemetry, setThrottlingCache
setEntity(c, kind, suppliedKey, e) ==
    setItem(c, entityKey(kind, suppliedKey, e), JSONstringify(e))

\* Texts that are not the JSON of an entity: not JSON at all, a JSON string,
\* number, null, and an array.
BadTexts ==
    {<<(<<"text", "{bad">>)>>, <<(<<"json", "string", "x">>)>>,
     <<(<<"json", "number", "1">>)>>, <<(<<"json", "null">>)>>,
     <<(<<"json", "array">>)>>}

CorruptibleKeys ==
    {generateEntityKey("Account", e) : e \in EntitiesOf("Account")}
        \cup SuppliedKeys("ServerTelemetry")

EntityOp(op, kind, key, e, result) ==
    [op |-> op, kind |-> kind, key |-> key, entity |-> e, result |-> result]

NoEntityOp == EntityOp("init", "", NoKey, NoFields, Absent)

----------------------------------------------------------------------------
(* Request correlation cache *)

setAuthorityCache(c, authority, state) ==
    setItem(c, generateAuthorityKey(state), authority)

\* getCachedAuthority: the authority of the state that is cached for the
\* given state's correlation id, null when no state is cached
getCachedAuthority(c, cachedState) ==
    LET state == getTemporaryCache(c, generateStateKey(cachedState), FALSE)
    IN  IF isEmpty(state)
        THEN Null
        ELSE getTemporaryCache(c, generateAuthorityKey(state), FALSE)

\* Every operation below yields [c |-> the cache after it, threw |-> whether
\* it raised, ret |-> the request it returned, str |-> the string it returned].
Outcome(c, threw, ret) == [c |-> c, threw |-> threw, ret |-> ret, str |-> <<>>]

NoRequest == [authority |-> Null, tag |-> ""]

Returned(c, str) == [Outcome(c, FALSE, NoRequest) EXCEPT !.str = str]

\* A begin that first drops the request-state items other requests left.
updateCacheEntries_sweeping(c, state, nonce, authorityInstance) ==
    IF ~stateParses(state)
    THEN Outcome(c, TRUE, NoRequest)
    ELSE LET kept == {key \in DOMAIN c.s : ~Contains(key, Lit(REQUEST_STATE))}
             c0 == [c EXCEPT !.s = [key \in kept |-> c.s[key]]]
             c1 == setTemporaryCache(c0, generateStateKey(state), state, FALSE)
             c2 == setTemporaryCache(c1, generateNonceKey(state), nonce, FALSE)
         IN  Outcome(setAuthorityCache(c2, authorityInstance, state), FALSE, NoRequest)

updateCacheEntries(c, state, nonce, authorityInstance) ==
    IF ~stateParses(state)
    THEN Outcome(c, TRUE, NoRequest)
    ELSE LET c1 == setTemporaryCache(c, generateStateKey(state), state, FALSE)
             c2 == setTemporaryCache(c1, generateNonceKey(state), nonce, FALSE)
         IN  Outcome(setAuthorityCache(c2, authorityInstance, state), FALSE, NoRequest)

\* What becomes of an assignment to document.cookie: the cookie is stored,
\* the browser drops it, or the write raises
CookieWrites == {"stored", "dropped", "raised"}

\* setItemCookie with what becomes of the write
writeItemCookie(c, name, value, how) ==
    [c |-> IF how = "stored" THEN setItemCookie(c, name, value) ELSE c,
     threw |-> how = "raised"]

\* setTemporaryCache with what becomes of its cookie write
setTemporaryCacheUnder(c, cacheKey, value, generateKey, how) ==
    LET key == IF generateKey THEN generateCacheKey(cacheKey) ELSE cacheKey
        c1 == setItem(c, key, value)
    IN  IF storeAuthStateInCookie
        THEN writeItemCookie(c1, key, value, how)
        ELSE [c |-> c1, threw |-> FALSE]

\* updateCacheEntries with what becomes of the cookie writes of the state
\* (how[1]) and of the nonce (how[2]): a write that raises ends the call.
updateCacheEntriesUnder(c, state, nonce, authorityInstance, how) ==
    IF ~stateParses(state)
    THEN Outcome(c, TRUE, NoRequest)
    ELSE LET w1 == setTemporaryCacheUnder(c, generateStateKey(state), state, FALSE, how[1])
             w2 == setTemporaryCacheUnder(w1.c, generateNonceKey(state), nonce, FALSE, how[2])
         IN  IF w1.threw
             THEN Outcome(w1.c, TRUE, NoRequest)
             ELSE IF w2.threw
             THEN Outcome(w2.c, TRUE, NoRequest)
             ELSE Outcome(setAuthorityCache(w2.c, authorityInstance, state), FALSE, NoRequest)

\* getKeys().forEach(key => removeItem(key)) over the keys in K
removeItems(c, K) ==
    [s |-> [x \in (DOMAIN c.s) \ K |-> c.s[x]],
     k |-> IF storeAuthStateInCookie
           THEN [x \in (DOMAIN c.k) \ K |-> c.k[x]]
           ELSE c.k]

removeGenericParams(c) ==
    LET c1 == removeItem(c, generateCacheKey(Lit(REQUEST_PARAMS)))
        c2 == removeItem(c1, generateCacheKey(Lit(ORIGIN_URI)))
        c3 == removeItem(c2, generateCacheKey(Lit(URL_HASH)))
    IN  removeItem(c3, generateCacheKey(Lit(INTERACTION_STATUS_KEY)))

removeStateItems(c, state) ==
    LET c1 == removeItem(c, generateStateKey(state))
        c2 == removeItem(c1, generateNonceKey(state))
    IN  removeItem(c2, generateAuthorityKey(state))

resetRequestCache(c, state) ==
    LET swept == removeItems(c, {key \in getKeys(c) :
                                    ~isEmpty(state) /\ Contains(key, state)})
    IN  IF isEmpty(state)
        THEN Outcome(removeGenericParams(swept), FALSE, NoRequest)
        ELSE IF ~stateParses(state)
             THEN Outcome(swept, TRUE, NoRequest)
             ELSE Outcome(removeGenericParams(removeStateItems(swept, state)),
                          FALSE, NoRequest)

\* A cleanup that removes the fixed-name items only.
cleanRequestByState_genericOnly(c, stateString) ==
    IF isEmpty(stateString)
    THEN Outcome(c, FALSE, NoRequest)
    ELSE resetRequestCache(c, Null)

cleanRequestByState(c, stateString) ==
    IF isEmpty(stateString)
    THEN Outcome(c, FALSE, NoRequest)
    ELSE IF ~stateParses(stateString)
         THEN Outcome(c, TRUE, NoRequest)
         ELSE resetRequestCache(c, getItem(c, generateStateKey(stateString)))

\* BrowserProtocolUtils.extractBrowserRequestState succeeds on the value
extractsBrowserRequestState(value) == stateParses(value)

extractBrowserRequestState(value) == parseRequestState(value)

\* The orders in which getKeys() may list the keys in K
Orders(K) ==
    {o \in [1..Cardinality(K) -> K] :
        \A i, j \in 1..Cardinality(K) : o[i] = o[j] => i = j}

\* A sweep that returns after the first request it resets.
RECURSIVE cleanRequestByInteractionType_firstOnly(_, _, _)
cleanRequestByInteractionType_firstOnly(c, interactionType, keys) ==
    IF keys = <<>>
    THEN Outcome(c, FALSE, NoRequest)
    ELSE LET key == Head(keys)
             value == getItem(c, key)
         IN  IF ~Contains(key, Lit(REQUEST_STATE))
             THEN cleanRequestByInteractionType_firstOnly(c, interactionType, Tail(keys))
             ELSE IF ~extractsBrowserRequestState(value)
                  THEN Outcome(c, TRUE, NoRequest)
                  ELSE IF extractBrowserRequestState(value).interactionType = interactionType
                       THEN resetRequestCache(c, value)
                       ELSE cleanRequestByInteractionType_firstOnly(
                                c, interactionType, Tail(keys))

\* getKeys().forEach over keys, the keys of the store in the order listed:
\* every request-state item whose value decodes to the interaction type is
\* reset; a value that does not decode ends the sweep with the error.
RECURSIVE cleanRequestByInteractionType(_, _, _)
cleanRequestByInteractionType(c, interactionType, keys) ==
    IF keys = <<>>
    THEN Outcome(c, FALSE, NoRequest)
    ELSE LET key == Head(keys)
             value == getItem(c, key)
         IN  IF ~Contains(key, Lit(REQUEST_STATE))
             THEN cleanRequestByInteractionType(c, interactionType, Tail(keys))
             ELSE IF ~extractsBrowserRequestState(value)
                  THEN Outcome(c, TRUE, NoRequest)
                  ELSE IF extractBrowserRequestState(value).interactionType = interactionType
                       THEN LET out == resetRequestCache(c, value)
                            IN  IF out.threw
                                THEN out
                                ELSE cleanRequestByInteractionType(
                                         out.c, interactionType, Tail(keys))
                       ELSE cleanRequestByInteractionType(c, interactionType, Tail(keys))

\* base64Decode and JSON.parse of the cached request succeed
requestDecodes(encoded) ==
    /\ Len(encoded) = 1
    /\ Len(encoded[1]) = 3
    /\ encoded[1][1] = "req"

decodeRequest(encoded) ==
    [authority |-> IF encoded[1][2] = "" THEN Null ELSE Lit(encoded[1][2]),
     tag |-> encoded[1][3]]

encodeRequest(authority, tag) == <<(<<"req", authority, tag>>)>>

cacheCodeRequest(c, encodedValue) ==
    Outcome(setTemporaryCache(c, Lit(REQUEST_PARAMS), encodedValue, TRUE),
            FALSE, NoRequest)

\* A read of the cached request that leaves it in the cache.
getCachedRequest_keepsParams(c, state) ==
    LET encodedTokenRequest ==
            getTemporaryCache(c, Lit(REQUEST_PARAMS), TRUE)
    IN  IF ~requestDecodes(encodedTokenRequest)
        THEN Outcome(c, TRUE, NoRequest)
        ELSE LET parsedRequest == decodeRequest(encodedTokenRequest)
             IN  IF ~isEmpty(parsedRequest.authority)
                 THEN Outcome(c, FALSE, parsedRequest)
                 ELSE IF ~stateParses(state)
                      THEN Outcome(c, TRUE, NoRequest)
                      ELSE Outcome(c, FALSE,
                               [parsedRequest EXCEPT !.authority =
                                   getTemporaryCache(c, generateAuthorityKey(state), FALSE)])

getCachedRequest(c, state) ==
    LET encodedTokenRequest ==
            getTemporaryCache(c, Lit(REQUEST_PARAMS), TRUE)
    IN  IF ~requestDecodes(encodedTokenRequest)
        THEN Outcome(c, TRUE, NoRequest)
        ELSE LET parsedRequest == decodeRequest(encodedTokenRequest)
                 c1 == removeItem(c, generateCacheKey(Lit(REQUEST_PARAMS)))
             IN  IF ~isEmpty(parsedRequest.authority)
                 THEN Outcome(c1, FALSE, parsedRequest)
                 ELSE IF ~stateParses(state)
                      THEN Outcome(c1, TRUE, NoRequest)
                      ELSE Outcome(c1, FALSE,
                               [parsedRequest EXCEPT !.authority =
                                   getTemporaryCache(c1, generateAuthorityKey(state), FALSE)])

----------------------------------------------------------------------------
(* Flows: each flow has its own library-minted correlation id *)

cache == [s |-> storage, k |-> cookies]

NoFlow == "-"

\* What is recorded of an operation: kind and swept are the interaction type
\* and the request states reset by a sweep, mirror what became of the cookie
\* writes.
Seen(op, f, state, key, out) ==
    [op |-> op, flow |-> f, state |-> state, key |-> key,
     threw |-> out.threw, ret |-> out.ret, str |-> out.str,
     kind |-> "", swept |-> {}, mirror |-> <<>>]

Stored(out, seen) ==
    /\ storage' = out.c.s
    /\ cookies' = out.c.k
    /\ last' = seen
    /\ UNCHANGED <<storeAuthStateInCookie, authVars, entVars>>

Update(out, seen) == Stored(out, seen) /\ UNCHANGED handling

Done(op, f, state, key, out) == Update(out, Seen(op, f, state, key, out))

InFlight == {"begun", "cached", "got"}

\* updateCacheEntries is called for a new request of f, its authority one of As
UpdateCacheEntriesFor(f, As) ==
    /\ pc[f] \in {"idle", "begun"}
    /\ nUpdates[f] < MaxUpdates
    /\ \E kind \in Kinds, user \in UserStates, nonce \in Nonces, a \in As :
          LET state == setRequestState(f, kind, user)
          IN  /\ Done("updateCacheEntries", f, state, NoKey,
                      updateCacheEntries(cache, state, Lit(nonce), Lit(a)))
              /\ fstate' = [fstate EXCEPT ![f] = state]
              /\ fnonce' = [fnonce EXCEPT ![f] = Lit(nonce)]
              /\ fauth' = [fauth EXCEPT ![f] = Lit(a)]
    /\ pc' = [pc EXCEPT ![f] = "begun"]
    /\ nUpdates' = [nUpdates EXCEPT ![f] = @ + 1]
    /\ UNCHANGED freq

UpdateCacheEntries(f) == UpdateCacheEntriesFor(f, Authorities)

CacheCodeRequest(f) ==
    /\ pc[f] = "begun"
    /\ \E a \in Authorities \cup {""} :
          LET encodedValue == encodeRequest(a, f)
          IN  /\ Done("cacheCodeRequest", f, fstate[f], NoKey,
                      cacheCodeRequest(cache, encodedValue))
              /\ freq' = [freq EXCEPT ![f] = encodedValue]
    /\ pc' = [pc EXCEPT ![f] = "cached"]
    /\ UNCHANGED <<fstate, fnonce, fauth, nUpdates>>

GetCachedRequest(f) ==
    /\ pc[f] = "cached"
    /\ Done("getCachedRequest", f, fstate[f], NoKey, getCachedRequest(cache, fstate[f]))
    /\ pc' = [pc EXCEPT ![f] = "got"]
    /\ UNCHANGED <<fstate, fnonce, fauth, freq, nUpdates>>

ResetRequestCache(f) ==
    /\ pc[f] \in InFlight
    /\ Done("resetRequestCache", f, fstate[f], NoKey, resetRequestCache(cache, fstate[f]))
    /\ pc' = [pc EXCEPT ![f] = "done"]
    /\ UNCHANGED <<fstate, fnonce, fauth, freq, nUpdates>>

CleanRequestByState(f) ==
    /\ pc[f] \in InFlight
    /\ Done("cleanRequestByState", f, fstate[f], NoKey,
            cleanRequestByState(cache, fstate[f]))
    /\ pc' = [pc EXCEPT ![f] = "done"]
    /\ UNCHANGED <<fstate, fnonce, fauth, freq, nUpdates>>

\* cleanRequestByInteractionType is called, by whoever abandons the
\* interaction type; the flows themselves are not told.
CleanRequestByInteractionType(interactionType) ==
    /\ LET stateKeys == {key \in getKeys(cache) : Contains(key, Lit(REQUEST_STATE))}
           matching == {getItem(cache, key) : key \in
                           {k \in stateKeys :
                               /\ extractsBrowserRequestState(getItem(cache, k))
                               /\ extractBrowserRequestState(getItem(cache, k))
                                      .interactionType = interactionType}}
       IN  \E keys \in Orders(stateKeys) :
              LET out == cleanRequestByInteractionType(cache, interactionType, keys)
              IN  Update(out, [Seen("cleanRequestByInteractionType", NoFlow, Null,
                                    NoKey, out)
                                  EXCEPT !.kind = interactionType, !.swept = matching])
    /\ UNCHANGED flowVars

NoLast ==
    [op |-> "init", flow |-> NoFlow, state |-> Null, key |-> NoKey,
     threw |-> FALSE, ret |-> NoRequest, str |-> Null, kind |-> "", swept |-> {},
     mirror |-> <<>>]

EmptyMap == [x \in {} |-> Null]

\* The payload of a response fragment, as handleFragmentResponse returns it
Payload(state, nonce, host) ==
    [state |-> state, nonce |-> nonce, cloud_instance_host_name |-> host]

NoPayload == Payload(Null, Null, "")

\* No response is being handled
NotHandling ==
    [pc |-> "idle", locationHash |-> Null, payload |-> NoPayload,
     request |-> NoRequest, client |-> "", log |-> <<>>, err |-> ""]

InitCache ==
    /\ storage = EmptyMap
    /\ cookies = EmptyMap
    /\ storeAuthStateInCookie \in BOOLEAN
    /\ last = NoLast
    /\ pc = [f \in Flows |-> "idle"]
    /\ fstate = [f \in Flows |-> Null]
    /\ fnonce = [f \in Flows |-> Null]
    /\ fauth = [f \in Flows |-> Null]
    /\ freq = [f \in Flows |-> Null]
    /\ nUpdates = [f \in Flows |-> 0]
    /\ elast = NoEntityOp
    /\ nWrites = 0
    /\ handling = [f \in Flows |-> NotHandling]

----------------------------------------------------------------------------
(* TrustedAuthority: the registry of trusted hosts *)

PreferredHost == "login.example.com"
AliasHost == "login.alias.example"
OtherHost == "login.other.example"
Hosts == {PreferredHost, AliasHost, OtherHost}
Tenants == {"common", "adfs"}
ADFS == "adfs"
Calls == {"r1", "r2"}

EmptyRegistry == [h \in {} |-> {}]

CloudMetadata ==
    [preferred_network |-> PreferredHost,
     preferred_cache |-> AliasHost,
     aliases |-> {PreferredHost, AliasHost}]

KnownCloud == [h \in {PreferredHost, AliasHost} |-> CloudMetadata]

getTrustedHostList == DOMAIN registry

IsInTrustedHostList(reg, host) == host \in DOMAIN reg

getCloudDiscoveryMetadata(reg, host) == reg[host]

\* setTrustedAuthoritiesFromNetwork: the entries of the fetched list are saved
\* over those already held; a failed fetch saves nothing.
saveCloudDiscoveryMetadata(reg, fetched) ==
    [h \in (DOMAIN reg) \cup (DOMAIN fetched) |->
        IF h \in DOMAIN fetched THEN fetched[h] ELSE reg[h]]

TrustedListResponses == {EmptyRegistry, KnownCloud}

----------------------------------------------------------------------------
(* Authority *)

\* new UrlString("https://<host>/<tenant>/")
UrlString(host, tenant) == <<T("https://"), T(host), T("/"), T(tenant), T("/")>>

HostNameAndPort(url) == url[2][1]

tenant == canonicalAuthority[4][1]

\* url.replace(a, b): the first occurrence of the token a becomes b
ReplaceFirst(url, a, b) ==
    IF \E i \in 1..Len(url) : url[i] = T(a)
    THEN LET i == CHOOSE i \in 1..Len(url) :
                    url[i] = T(a) /\ \A j \in 1..(i - 1) : url[j] # T(a)
         IN  [url EXCEPT ![i] = T(b)]
    ELSE url

\* url.replace(/{tenant}|{tenantid}/g, this.tenant)
replaceTenant(urlString) ==
    [i \in 1..Len(urlString) |->
        IF urlString[i] \in {T("{tenant}"), T("{tenantid}")}
        THEN T(tenant)
        ELSE urlString[i]]

authorityType == IF tenant = ADFS THEN "Adfs" ELSE "Default"

defaultOpenIdConfigurationEndpoint ==
    IF authorityType = "Adfs" \/ protocolMode = "OIDC"
    THEN canonicalAuthority \o <<T(".well-known/openid-configuration")>>
    ELSE canonicalAuthority \o <<T("v2.0/"), T(".well-known/openid-configuration")>>

\* OpenID configuration documents the network may answer with
TenantedDoc ==
    [authorization_endpoint |->
        <<T("https://login.example.com/"), T("{tenant}"), T("/oauth2/v2.0/authorize")>>,
     token_endpoint |->
        <<T("https://login.example.com/"), T("{tenant}"), T("/oauth2/v2.0"), T("/token")>>,
     end_session_endpoint |->
        <<T("https://login.example.com/"), T("{tenant}"), T("/oauth2/v2.0/logout")>>,
     issuer |->
        <<T("https://login.example.com/"), T("{tenantid}"), T("/v2.0")>>]

FixedDoc ==
    [authorization_endpoint |-> <<T("https://login.example.com/adfs/oauth2/authorize")>>,
     token_endpoint |-> <<T("https://login.example.com/adfs/oauth2"), T("/token")>>,
     end_session_endpoint |-> <<T("https://login.example.com/adfs/oauth2/logout")>>,
     issuer |-> <<T("https://login.example.com/adfs")>>]

\* response.body is undefined
NoDoc ==
    [authorization_endpoint |-> Null, token_endpoint |-> Null,
     end_session_endpoint |-> Null, issuer |-> Null]

OpenIdResponses == {TenantedDoc, FixedDoc, NoDoc}

discoveryComplete == tenantDiscoveryResponse # NoDoc

EndpointNames ==
    {"authorizationEndpoint", "tokenEndpoint", "deviceCodeEndpoint",
     "endSessionEndpoint", "selfSignedJwtAudience"}

Threw(err) == [err |-> err, str |-> Null]
Gave(str) == [err |-> "", str |-> str]

\* An accessor that answers with an empty default before discovery.
endpoint_lenient(name) ==
    IF name = "authorizationEndpoint"
    THEN Gave(replaceTenant(tenantDiscoveryResponse.authorization_endpoint))
    ELSE IF name = "tokenEndpoint"
    THEN Gave(replaceTenant(tenantDiscoveryResponse.token_endpoint))
    ELSE IF name = "deviceCodeEndpoint"
    THEN Gave(ReplaceFirst(tenantDiscoveryResponse.token_endpoint, "/token", "/devicecode"))
    ELSE IF name = "endSessionEndpoint"
    THEN Gave(replaceTenant(tenantDiscoveryResponse.end_session_endpoint))
    ELSE Gave(replaceTenant(tenantDiscoveryResponse.issuer))

\* The getters authorizationEndpoint, tokenEndpoint, deviceCodeEndpoint,
\* endSessionEndpoint and selfSignedJwtAudience
endpoint(name) ==
    IF ~discoveryComplete
    THEN Threw("endpoints_resolution_error")
    ELSE IF name = "authorizationEndpoint"
    THEN Gave(replaceTenant(tenantDiscoveryResponse.authorization_endpoint))
    ELSE IF name = "tokenEndpoint"
    THEN Gave(replaceTenant(tenantDiscoveryResponse.token_endpoint))
    ELSE IF name = "deviceCodeEndpoint"
    THEN Gave(ReplaceFirst(tenantDiscoveryResponse.token_endpoint, "/token", "/devicecode"))
    ELSE IF name = "endSessionEndpoint"
    THEN Gave(replaceTenant(tenantDiscoveryResponse.end_session_endpoint))
    ELSE Gave(replaceTenant(tenantDiscoveryResponse.issuer))

NoCall == "-"

\* body is the document a discovery response carried; host and ret are the
\* argument and the return value of isAuthorityAlias
Observed(op, r, err, str) ==
    [op |-> op, call |-> r, err |-> err, str |-> str, body |-> NoDoc,
     host |-> "", ret |-> FALSE]

CacheUntouched == UNCHANGED <<cacheVars, flowVars, entVars, handling>>

\* A trust decision that lets an unknown host through.
Validate_lenient(r, host, reg) ==
    /\ canonicalAuthority' =
           IF IsInTrustedHostList(reg, host)
              /\ host # getCloudDiscoveryMetadata(reg, host).preferred_network
           THEN ReplaceFirst(canonicalAuthority, host,
                             getCloudDiscoveryMetadata(reg, host).preferred_network)
           ELSE canonicalAuthority
    /\ rpc' = [rpc EXCEPT ![r] = "validated"]
    /\ alast' = Observed("validateAndSetPreferredNetwork", r, "", Null)

\* A trust decision that leaves the canonical authority on the host it has.
Validate_keepsHost(r, host, reg) ==
    IF ~IsInTrustedHostList(reg, host)
    THEN /\ rpc' = [rpc EXCEPT ![r] = "failed"]
         /\ alast' = Observed("resolveEndpointsAsync", r, "untrusted_authority", Null)
         /\ UNCHANGED canonicalAuthority
    ELSE /\ UNCHANGED canonicalAuthority
         /\ rpc' = [rpc EXCEPT ![r] = "validated"]
         /\ alast' = Observed("validateAndSetPreferredNetwork", r, "", Null)

\* validateAndSetPreferredNetwork after the registry has been looked at: the
\* trust decision on the host read at the start, then the rewrite of the
\* canonical authority to the preferred network host.
Validate(r, host, reg) ==
    IF ~IsInTrustedHostList(reg, host)
    THEN /\ rpc' = [rpc EXCEPT ![r] = "failed"]
         /\ alast' = Observed("resolveEndpointsAsync", r, "untrusted_authority", Null)
         /\ UNCHANGED canonicalAuthority
    ELSE LET preferredNetwork == getCloudDiscoveryMetadata(reg, host).preferred_network
         IN  /\ canonicalAuthority' =
                    IF host # preferredNetwork
                    THEN ReplaceFirst(canonicalAuthority, host, preferredNetwork)
                    ELSE canonicalAuthority
             /\ rpc' = [rpc EXCEPT ![r] = "validated"]
             /\ alast' = Observed("validateAndSetPreferredNetwork", r, "", Null)

\* A call that decides on the registry as it finds it, without a fetch.
ResolveStart_noFetch(r) ==
    /\ rpc[r] \in {"idle", "done", "failed"}
    /\ nResolves < MaxResolves
    /\ nResolves' = nResolves + 1
    /\ rhost' = [rhost EXCEPT ![r] = HostNameAndPort(canonicalAuthority)]
    /\ rlog' = [rlog EXCEPT ![r] = <<>>]
    /\ Validate(r, HostNameAndPort(canonicalAuthority), registry)
    /\ UNCHANGED <<registry, protocolMode, tenantDiscoveryResponse, succeeded,
                   nPopulated>>
    /\ CacheUntouched

\* resolveEndpointsAsync is called: it runs to the first await.
ResolveStart(r) ==
    /\ rpc[r] \in {"idle", "done", "failed"}
    /\ nResolves < MaxResolves
    /\ nResolves' = nResolves + 1
    /\ LET host == HostNameAndPort(canonicalAuthority)
       IN  /\ rhost' = [rhost EXCEPT ![r] = host]
           /\ IF getTrustedHostList = {}
              THEN /\ rlog' = [rlog EXCEPT ![r] = <<(<<"trustedHostList", host>>)>>]
                   /\ rpc' = [rpc EXCEPT ![r] = "awaitTrustedHostList"]
                   /\ alast' = Observed("setTrustedAuthoritiesFromNetwork", r, "", Null)
                   /\ UNCHANGED canonicalAuthority
              ELSE /\ rlog' = [rlog EXCEPT ![r] = <<>>]
                   /\ Validate(r, host, registry)
    /\ UNCHANGED <<registry, protocolMode, tenantDiscoveryResponse, succeeded,
                   nPopulated>>
    /\ CacheUntouched

\* The trusted-host list arrives and is saved.
TrustedListSaved(r) ==
    /\ rpc[r] = "awaitTrustedHostList"
    /\ \E fetched \in TrustedListResponses :
          /\ registry' = saveCloudDiscoveryMetadata(registry, fetched)
          /\ nPopulated' = IF fetched # EmptyRegistry THEN nPopulated + 1 ELSE nPopulated
          /\ Validate(r, rhost[r], registry')
    /\ UNCHANGED <<protocolMode, tenantDiscoveryResponse, rhost, rlog, nResolves, succeeded>>
    /\ CacheUntouched

\* The fetch of the trusted-host list fails: nothing is saved.
TrustedListFailed(r) ==
    /\ rpc[r] = "awaitTrustedHostList"
    /\ Validate(r, rhost[r], registry)
    /\ UNCHANGED <<registry, protocolMode, tenantDiscoveryResponse, rhost, rlog,
                   nResolves, succeeded, nPopulated>>
    /\ CacheUntouched

\* discoverEndpoints: the OpenID configuration is requested.
DiscoverEndpoints(r) ==
    /\ rpc[r] = "validated"
    /\ rlog' = [rlog EXCEPT ![r] =
                   Append(@, <<"openIdConfiguration",
                               HostNameAndPort(defaultOpenIdConfigurationEndpoint)>>)]
    /\ rpc' = [rpc EXCEPT ![r] = "awaitOpenIdConfiguration"]
    /\ alast' = Observed("discoverEndpoints", r, "", Null)
    /\ UNCHANGED <<registry, canonicalAuthority, protocolMode, tenantDiscoveryResponse,
                   rhost, nResolves, succeeded, nPopulated>>
    /\ CacheUntouched

\* A discovery that keeps the first document it stored.
EndpointsDiscovered_firstWins(r) ==
    /\ rpc[r] = "awaitOpenIdConfiguration"
    /\ \E body \in OpenIdResponses :
          /\ tenantDiscoveryResponse' =
                 IF discoveryComplete THEN tenantDiscoveryResponse ELSE body
          /\ alast' = [Observed("resolveEndpointsAsync", r, "", Null) EXCEPT !.body = body]
    /\ rpc' = [rpc EXCEPT ![r] = "done"]
    /\ succeeded' = TRUE
    /\ UNCHANGED <<registry, canonicalAuthority, protocolMode, rhost, rlog, nResolves,
                   nPopulated>>
    /\ CacheUntouched

\* The OpenID configuration arrives: response.body is stored.
EndpointsDiscovered(r) ==
    /\ rpc[r] = "awaitOpenIdConfiguration"
    /\ \E body \in OpenIdResponses :
          /\ tenantDiscoveryResponse' = body
          /\ alast' = [Observed("resolveEndpointsAsync", r, "", Null) EXCEPT !.body = body]
    /\ rpc' = [rpc EXCEPT ![r] = "done"]
    /\ succeeded' = TRUE
    /\ UNCHANGED <<registry, canonicalAuthority, protocolMode, rhost, rlog, nResolves,
                   nPopulated>>
    /\ CacheUntouched

\* A failure that drops the endpoints discovered before.
DiscoveryFailed_forgets(r) ==
    /\ rpc[r] = "awaitOpenIdConfiguration"
    /\ rpc' = [rpc EXCEPT ![r] = "failed"]
    /\ tenantDiscoveryResponse' = NoDoc
    /\ alast' = Observed("resolveEndpointsAsync", r, "network_error", Null)
    /\ UNCHANGED <<registry, canonicalAuthority, protocolMode,
                   rhost, rlog, nResolves, succeeded, nPopulated>>
    /\ CacheUntouched

\* The OpenID configuration request fails.
DiscoveryFailed(r) ==
    /\ rpc[r] = "awaitOpenIdConfiguration"
    /\ rpc' = [rpc EXCEPT ![r] = "failed"]
    /\ alast' = Observed("resolveEndpointsAsync", r, "network_error", Null)
    /\ UNCHANGED <<registry, canonicalAuthority, protocolMode, tenantDiscoveryResponse,
                   rhost, rlog, nResolves, succeeded, nPopulated>>
    /\ CacheUntouched

\* One of the endpoint getters is read.
GetEndpoint(name) ==
    /\ alast' = Observed(name, NoCall, endpoint(name).err, endpoint(name).str)
    /\ UNCHANGED <<registry, canonicalAuthority, protocolMode, tenantDiscoveryResponse,
                   rpc, rhost, rlog, nResolves, succeeded, nPopulated>>
    /\ CacheUntouched

NoObservation == Observed("init", NoCall, "", Null)

\* No Authority in use (the cache specifications)
NoAuthority ==
    /\ registry = EmptyRegistry
    /\ canonicalAuthority = UrlString(PreferredHost, "common")
    /\ protocolMode = "AAD"
    /\ tenantDiscoveryResponse = NoDoc
    /\ rpc = [r \in Calls |-> "idle"]
    /\ rhost = [r \in Calls |-> ""]
    /\ rlog = [r \in Calls |-> <<>>]
    /\ nResolves = 0
    /\ succeeded = FALSE
    /\ nPopulated = 0
    /\ alast = NoObservation

\* new Authority(url, networkInterface, protocolMode), with the registry
\* empty or holding the configured cloud
InitAuthority ==
    /\ registry \in {EmptyRegistry, KnownCloud}
    /\ \E host \in Hosts, t \in Tenants : canonicalAuthority = UrlString(host, t)
    /\ protocolMode \in {"AAD", "OIDC"}
    /\ tenantDiscoveryResponse = NoDoc
    /\ rpc = [r \in Calls |-> "idle"]
    /\ rhost = [r \in Calls |-> ""]
    /\ rlog = [r \in Calls |-> <<>>]
    /\ nResolves = 0
    /\ succeeded = FALSE
    /\ nPopulated = 0
    /\ alast = NoObservation

NextAuthority ==
    \/ \E r \in Calls :
          \/ ResolveStart(r)
          \/ TrustedListSaved(r)
          \/ TrustedListFailed(r)
          \/ DiscoverEndpoints(r)
          \/ EndpointsDiscovered(r)
          \/ DiscoveryFailed(r)
    \/ \E name \in EndpointNames : GetEndpoint(name)

\* No request in the cache (the Authority specification)
NoRequests == InitCache /\ ~storeAuthStateInCookie

InitA == NoRequests /\ InitAuthority

SpecAuthority == InitA /\ [][NextAuthority]_vars

Init == InitCache /\ NoAuthority

----------------------------------------------------------------------------
(* Authority.constructor *)

\* UrlString.validateAsUri: the string has a scheme, a host and a path
validateAsUri(url) ==
    /\ Len(url) = 5
    /\ url[1] = T("https://")
    /\ url[2][1] \in Hosts
    /\ url[3] = T("/")
    /\ url[5] = T("/")

\* Strings an Authority is constructed from: absolute URLs, the empty
\* string, a URL without scheme and a scheme without host
AuthorityStrings ==
    {UrlString(host, t) : host \in Hosts, t \in Tenants}
        \cup {Null,
              <<T(PreferredHost), T("/"), T("common"), T("/")>>,
              <<T("https://")>>}

\* A constructor that keeps whatever string it is given.
NewAuthority_unvalidated(authority, mode) ==
    /\ \A r \in Calls : rpc[r] \in {"idle", "done", "failed"}
    /\ canonicalAuthority' = authority
    /\ protocolMode' = mode
    /\ alast' = Observed("constructor", NoCall, "", authority)
    /\ tenantDiscoveryResponse' = NoDoc
    /\ rpc' = [r \in Calls |-> "idle"]
    /\ succeeded' = FALSE
    /\ UNCHANGED <<registry, rhost, rlog, nResolves, nPopulated>>
    /\ CacheUntouched

\* new Authority(authority, networkInterface, protocolMode): the setter of
\* canonicalAuthority and validateAsUri raise before any field of a malformed
\* Authority is used, and the caller is left without an Authority.
NewAuthority(authority, mode) ==
    /\ \A r \in Calls : rpc[r] \in {"idle", "done", "failed"}
    /\ IF validateAsUri(authority)
       THEN /\ canonicalAuthority' = authority
            /\ protocolMode' = mode
            /\ alast' = Observed("constructor", NoCall, "", authority)
       ELSE /\ canonicalAuthority' = Null
            /\ UNCHANGED protocolMode
            /\ alast' = Observed("constructor", NoCall, "url_parse_error", authority)
    /\ tenantDiscoveryResponse' = NoDoc
    /\ rpc' = [r \in Calls |-> "idle"]
    /\ succeeded' = FALSE
    /\ UNCHANGED <<registry, rhost, rlog, nResolves, nPopulated>>
    /\ CacheUntouched

\* No Authority has been constructed yet
Unconstructed ==
    /\ registry \in {EmptyRegistry, KnownCloud}
    /\ canonicalAuthority = Null
    /\ protocolMode = "AAD"
    /\ tenantDiscoveryResponse = NoDoc
    /\ rpc = [r \in Calls |-> "idle"]
    /\ rhost = [r \in Calls |-> ""]
    /\ rlog = [r \in Calls |-> <<>>]
    /\ nResolves = 0
    /\ succeeded = FALSE
    /\ nPopulated = 0
    /\ alast = NoObservation

InitConstruct == NoRequests /\ Unconstructed

\* Authorities are constructed, and the one constructed last is used
NextConstruct ==
    \/ \E authority \in AuthorityStrings, mode \in {"AAD", "OIDC"} :
          NewAuthority(authority, mode)
    \/ canonicalAuthority # Null /\ NextAuthority

SpecConstruct == InitConstruct /\ [][NextConstruct]_vars

----------------------------------------------------------------------------
(* InteractionHandler.handleCodeResponse *)

\* A second cloud, of the one host OtherHost
OtherCloud ==
    [preferred_network |-> OtherHost, preferred_cache |-> OtherHost, aliases |-> {OtherHost}]

TwoClouds == [h \in Hosts |-> IF h = OtherHost THEN OtherCloud ELSE CloudMetadata]

\* An alias test that knows the canonical host only.
isAuthorityAlias_hostOnly(host) ==
    [threw |-> FALSE, ret |-> host = HostNameAndPort(canonicalAuthority)]

\* Authority.isAuthorityAlias: the metadata of a host the registry does not
\* hold is undefined, and reading its aliases raises.
isAuthorityAlias(host) ==
    IF host = HostNameAndPort(canonicalAuthority)
    THEN [threw |-> FALSE, ret |-> TRUE]
    ELSE IF ~IsInTrustedHostList(registry, HostNameAndPort(canonicalAuthority))
         THEN [threw |-> TRUE, ret |-> FALSE]
         ELSE [threw |-> FALSE,
               ret |-> host \in getCloudDiscoveryMetadata(
                                   registry, HostNameAndPort(canonicalAuthority)).aliases]

\* isAuthorityAlias is called on the Authority.
IsAuthorityAlias(host) ==
    /\ alast' = [Observed("isAuthorityAlias", NoCall,
                          IF isAuthorityAlias(host).threw THEN "type_error" ELSE "", Null)
                     EXCEPT !.host = host, !.ret = isAuthorityAlias(host).ret]
    /\ UNCHANGED <<registry, canonicalAuthority, protocolMode, tenantDiscoveryResponse,
                   rpc, rhost, rlog, nResolves, succeeded, nPopulated>>
    /\ CacheUntouched

\* The alias test beside the resolution of the Authority's endpoints
NextAlias ==
    \/ NextAuthority
    \/ \E host \in Hosts : IsAuthorityAlias(host)

SpecAlias == InitA /\ [][NextAlias]_vars

\* What the handler did: a cache lookup, the construction of a new Authority,
\* the switch of the token client to it, the token exchange, the cleanup
Event(ev, host, request, payload) ==
    [ev |-> ev, host |-> host, request |-> request, payload |-> payload]

Handled(c, at, err, log, request) ==
    [c |-> c, pc |-> at, err |-> err, log |-> log, request |-> request]

\* The request's temporary items are cleared and the error is raised.
Failed(c, state, err, log) ==
    Handled(cleanRequestByState(c, state).c, "failed", err,
            Append(log, Event("cleanRequestByState", "", NoRequest, NoPayload)),
            NoRequest)

\* Steps 3 to 5: the state is decoded, the cached items are looked up, the
\* nonce is compared, and the reported cloud instance is compared with the
\* Authority; the handler then waits for the new Authority or for the tokens.
resolveResponse(c, payload) ==
    LET state == payload.state
        host == payload.cloud_instance_host_name
        lookedUp == <<Event("getTemporaryCache", "", NoRequest, NoPayload)>>
    IN  IF ~stateParses(state)
        THEN Handled(c, "failed", "invalid_state", <<>>, NoRequest)
        ELSE LET requestState == getTemporaryCache(c, generateStateKey(state), FALSE)
                 cachedNonce == getTemporaryCache(c, generateNonceKey(state), FALSE)
                 cached == getCachedRequest(c, state)
             IN  IF isEmpty(requestState) \/ isEmpty(cachedNonce)
                 THEN Failed(c, state, "state_not_found", lookedUp)
                 ELSE IF cached.threw
                 THEN Failed(cached.c, state, "token_request_cache_error", lookedUp)
                 ELSE IF isEmpty(cached.ret.authority)
                 THEN Failed(cached.c, state, "token_request_cache_error", lookedUp)
                 ELSE IF payload.nonce # cachedNonce
                 THEN Failed(cached.c, state, "nonce_mismatch", lookedUp)
                 ELSE IF host # "" /\ isAuthorityAlias(host).threw
                 THEN Failed(cached.c, state, "unexpected_error", lookedUp)
                 ELSE IF host # "" /\ ~isAuthorityAlias(host).ret
                 THEN Handled(cached.c, "awaitAuthority", "",
                              Append(lookedUp, Event("createDiscoveredInstance", host,
                                                     NoRequest, NoPayload)),
                              cached.ret)
                 ELSE Handled(cached.c, "awaitToken", "",
                              Append(lookedUp, Event("acquireToken",
                                                     HostNameAndPort(canonicalAuthority),
                                                     cached.ret, payload)),
                              cached.ret)

\* A handler that does not look at the fragment before it decodes it.
handleCodeResponse_noHashCheck(c, locationHash, payload) ==
    resolveResponse(c, payload)

\* Step 1: an empty fragment is rejected; step 2 has parsed it into payload.
handleCodeResponse(c, locationHash, payload) ==
    IF isEmpty(locationHash)
    THEN Handled(c, "failed", "hash_empty_error", <<>>, NoRequest)
    ELSE resolveResponse(c, payload)

Handling(f, out) ==
    /\ Stored(out, Seen("handleCodeResponse", f, fstate[f], NoKey,
                        Outcome(out.c, out.pc = "failed", out.request)))
    /\ UNCHANGED <<fstate, fnonce, fauth, freq, nUpdates>>

Cleared(f) == Handled(cleanRequestByState(cache, handling[f].payload.state).c, "", "", <<>>,
                      NoRequest)

Fragments == {Null, Lit("#code=c")}

CloudInstances == {"", AliasHost, OtherHost}

\* handleCodeResponse is called with the fragment of a response to f's
\* request: it runs to its first await or to its error.
HandleCodeResponse(f) ==
    /\ pc[f] = "cached"
    /\ handling[f].pc = "idle"
    /\ \E locationHash \in Fragments, nonce \in Nonces, host \in CloudInstances :
          LET payload == IF isEmpty(locationHash)
                         THEN NoPayload
                         ELSE Payload(fstate[f], Lit(nonce), host)
              out == handleCodeResponse(cache, locationHash, payload)
          IN  /\ handling' = [handling EXCEPT ![f] =
                     [pc |-> out.pc, locationHash |-> locationHash, payload |-> payload,
                      request |-> out.request,
                      client |-> HostNameAndPort(canonicalAuthority),
                      log |-> out.log, err |-> out.err]]
              /\ pc' = [pc EXCEPT ![f] =
                     IF out.log = <<>> THEN "cached"
                     ELSE IF out.pc = "failed" THEN "done" ELSE "got"]
              /\ Handling(f, out)

\* createDiscoveredInstance resolves: the token client is switched to the
\* new Authority and the token exchange is started.
AuthorityCreated(f) ==
    /\ handling[f].pc = "awaitAuthority"
    /\ LET host == handling[f].payload.cloud_instance_host_name
       IN  /\ IsInTrustedHostList(registry, host)
           /\ handling' = [handling EXCEPT
                  ![f].pc = "awaitToken",
                  ![f].client = host,
                  ![f].log = @ \o <<Event("updateAuthority", host, NoRequest, NoPayload),
                                    Event("acquireToken", host, handling[f].request,
                                          handling[f].payload)>>]
    /\ UNCHANGED <<cacheVars, flowVars, authVars, entVars>>

\* createDiscoveredInstance rejects: the host is not trusted or its discovery
\* failed.
AuthorityFailed(f) ==
    /\ handling[f].pc = "awaitAuthority"
    /\ handling' = [handling EXCEPT
           ![f].pc = "failed",
           ![f].err = "endpoints_resolution_error",
           ![f].log = Append(@, Event("cleanRequestByState", "", NoRequest, NoPayload))]
    /\ pc' = [pc EXCEPT ![f] = "done"]
    /\ Handling(f, [Cleared(f) EXCEPT !.pc = "failed"])

\* acquireToken resolves.
TokenAcquired(f) ==
    /\ handling[f].pc = "awaitToken"
    /\ handling' = [handling EXCEPT
           ![f].pc = "done",
           ![f].log = Append(@, Event("cleanRequestByState", "", NoRequest, NoPayload))]
    /\ pc' = [pc EXCEPT ![f] = "done"]
    /\ Handling(f, [Cleared(f) EXCEPT !.pc = "done", !.request = handling[f].request])

\* acquireToken rejects.
TokenFailed(f) ==
    /\ handling[f].pc = "awaitToken"
    /\ handling' = [handling EXCEPT
           ![f].pc = "failed",
           ![f].err = "token_exchange_error",
           ![f].log = Append(@, Event("cleanRequestByState", "", NoRequest, NoPayload))]
    /\ pc' = [pc EXCEPT ![f] = "done"]
    /\ Handling(f, [Cleared(f) EXCEPT !.pc = "failed"])

\* The Authority the handler is given: trusted, on its preferred network
\* host, and discovered
DiscoveredAuthority ==
    /\ registry \in {KnownCloud, TwoClouds}
    /\ canonicalAuthority = UrlString(PreferredHost, "common")
    /\ protocolMode = "AAD"
    /\ tenantDiscoveryResponse = TenantedDoc
    /\ rpc = [r \in Calls |-> "idle"]
    /\ rhost = [r \in Calls |-> ""]
    /\ rlog = [r \in Calls |-> <<>>]
    /\ nResolves = 0
    /\ succeeded = TRUE
    /\ nPopulated = 0
    /\ alast = NoObservation

\* The request of each flow as it was begun: the flow's own correlation id
\* and nonce
BegunState(f) == setRequestState(f, "redirect", "")
BegunNonce(f) == IF f = "f1" THEN Lit("N1") ELSE Lit("N2")
BegunAuthority == Lit("https://login.example.com/common/")

RECURSIVE BeginAll(_, _)
BeginAll(c, F) ==
    IF F = {}
    THEN c
    ELSE LET f == CHOOSE x \in F : TRUE
         IN  BeginAll(updateCacheEntries(c, BegunState(f), BegunNonce(f), BegunAuthority).c,
                      F \ {f})

\* The return leg starts with the requests of all flows begun: each has made
\* its updateCacheEntries call on the empty cache.
BegunRequests ==
    /\ storeAuthStateInCookie \in BOOLEAN
    /\ storage = BeginAll([s |-> EmptyMap, k |-> EmptyMap], Flows).s
    /\ cookies = BeginAll([s |-> EmptyMap, k |-> EmptyMap], Flows).k
    /\ last = NoLast
    /\ pc = [f \in Flows |-> "begun"]
    /\ fstate = [f \in Flows |-> BegunState(f)]
    /\ fnonce = [f \in Flows |-> BegunNonce(f)]
    /\ fauth = [f \in Flows |-> BegunAuthority]
    /\ freq = [f \in Flows |-> Null]
    /\ nUpdates = [f \in Flows |-> 1]
    /\ elast = NoEntityOp
    /\ nWrites = 0
    /\ handling = [f \in Flows |-> NotHandling]

InitResponse == BegunRequests /\ DiscoveredAuthority

NextResponse ==
    \/ \E f \in Flows :
          \/ CacheCodeRequest(f)
          \/ HandleCodeResponse(f)
          \/ AuthorityCreated(f)
          \/ AuthorityFailed(f)
          \/ TokenAcquired(f)
          \/ TokenFailed(f)
    \/ \E interactionType \in Kinds : CleanRequestByInteractionType(interactionType)

SpecResponse == InitResponse /\ [][NextResponse]_vars

Next ==
    \E f \in Flows :
        \/ UpdateCacheEntries(f)
        \/ CacheCodeRequest(f)
        \/ GetCachedRequest(f)
        \/ ResetRequestCache(f)
        \/ CleanRequestByState(f)

Spec == Init /\ [][Next]_vars

\* Requests are begun while interaction types are abandoned
NextSweep ==
    \/ \E f \in Flows : UpdateCacheEntries(f)
    \/ \E interactionType \in Kinds : CleanRequestByInteractionType(interactionType)

SpecSweep == Init /\ [][NextSweep]_vars

\* The return leg of a request whose items a sweep may have removed
NextLost ==
    \/ \E f \in Flows :
          \/ UpdateCacheEntries(f)
          \/ CacheCodeRequest(f)
          \/ GetCachedRequest(f)
    \/ \E interactionType \in Kinds : CleanRequestByInteractionType(interactionType)

SpecLost == Init /\ [][NextLost]_vars

\* A key of the request-state namespace that no request of this model made
ForeignStateKey == generateCacheKey(<<T(REQUEST_STATE), T("."), T("legacy")>>)

\* Values that are not a state of this library: a plain caller state, and a
\* state cut short inside its library part
ForeignValues == {Lit("S1"), <<(<<"b64", "f1">>)>>}

\* Another writer of the shared store leaves an entry in the request-state
\* namespace.
SetForeignItem(v) ==
    /\ Done("setItem", NoFlow, Null, ForeignStateKey,
            Outcome(setItem(cache, ForeignStateKey, v), FALSE, NoRequest))
    /\ UNCHANGED flowVars

\* Sweeps over a store that holds foreign entries beside the requests
NextForeign ==
    \/ \E f \in Flows : UpdateCacheEntries(f)
    \/ \E v \in ForeignValues : SetForeignItem(v)
    \/ \E interactionType \in Kinds : CleanRequestByInteractionType(interactionType)

SpecForeign == Init /\ [][NextForeign]_vars

\* The request-state item of f is removed on its own, before the cleanup of f.
RemoveStateItem(f) ==
    /\ pc[f] \in InFlight
    /\ Done("removeItem", f, fstate[f], generateStateKey(fstate[f]),
            Outcome(removeItem(cache, generateStateKey(fstate[f])), FALSE, NoRequest))
    /\ UNCHANGED flowVars

\* Cleanups of requests whose request-state item may be gone already
NextOrphan ==
    \E f \in Flows :
        \/ UpdateCacheEntries(f)
        \/ RemoveStateItem(f)
        \/ CleanRequestByState(f)

SpecOrphan == Init /\ [][NextOrphan]_vars

\* Authorities of two clouds
CloudAuthorities ==
    {"https://login.example.com/common/", "https://login.other.example/common/"}

\* getCachedAuthority is called with the state of f's request.
GetCachedAuthority(f) ==
    /\ pc[f] \in InFlight
    /\ Done("getCachedAuthority", f, fstate[f], generateAuthorityKey(fstate[f]),
            Returned(cache, getCachedAuthority(cache, fstate[f])))
    /\ UNCHANGED flowVars

\* The nonce cached for f's request is looked up.
GetCachedNonce(f) ==
    /\ pc[f] \in InFlight
    /\ Done("getTemporaryCache", f, fstate[f], generateNonceKey(fstate[f]),
            Returned(cache, getTemporaryCache(cache, generateNonceKey(fstate[f]), FALSE)))
    /\ UNCHANGED flowVars

\* Concurrent requests, each with an authority and a nonce of its own, are
\* begun, looked up and ended
NextNamespace ==
    \E f \in Flows :
        \/ UpdateCacheEntriesFor(f, CloudAuthorities)
        \/ GetCachedAuthority(f)
        \/ GetCachedNonce(f)
        \/ ResetRequestCache(f)

SpecNamespace == Init /\ [][NextNamespace]_vars

----------------------------------------------------------------------------
(* The state codec and the key generators, on well-formed and malformed state *)

\* The state values the codec produces
Encoded == {setRequestState(id, kind, user) : id \in Flows, kind \in Kinds, user \in UserStates}

\* A state value cut short: after one of its parts, or inside the library state
Truncated ==
    UNION {{SubSeq(e, 1, k) : k \in 0..(Len(e) - 1)} : e \in Encoded}
        \cup {[e EXCEPT ![1] = SubSeq(@, 1, k)] : e \in Encoded, k \in 1..2}

\* A state value with its parts in another order
Reordered ==
    UNION {{[i \in 1..Len(e) |-> e[o[i]]] : o \in Orders(1..Len(e))} : e \in Encoded}

Malformed == (Truncated \cup Reordered) \ Encoded

StateStrings == Encoded \cup Malformed

StateKeyNames == {AUTHORITY, NONCE_IDTOKEN, REQUEST_STATE}

Pure(seen) ==
    /\ last' = seen
    /\ UNCHANGED <<storage, cookies, storeAuthStateInCookie, flowVars, authVars, entVars,
                   handling>>

\* ProtocolUtils.setRequestState is called.
SetRequestState(id, kind, user) ==
    Pure([NoLast EXCEPT !.op = "setRequestState", !.flow = id, !.kind = kind,
                        !.str = IF user = "" THEN Null ELSE Lit(user),
                        !.state = setRequestState(id, kind, user)])

\* ProtocolUtils.parseRequestState is called.
ParseRequestState(stateString) ==
    Pure(IF stateParses(stateString)
         THEN [NoLast EXCEPT !.op = "parseRequestState", !.state = stateString,
                             !.flow = parseRequestState(stateString).id,
                             !.kind = parseRequestState(stateString).interactionType,
                             !.str = parseRequestState(stateString).userRequestState]
         ELSE [NoLast EXCEPT !.op = "parseRequestState", !.state = stateString,
                             !.threw = TRUE])

\* One of generateAuthorityKey, generateNonceKey, generateStateKey is called.
GenerateKey(name, stateString) ==
    Pure([NoLast EXCEPT !.op = "generateKey", !.kind = name, !.state = stateString,
                        !.threw = generatedKey(name, stateString).threw,
                        !.key = generatedKey(name, stateString).key])

NextCodec ==
    \/ \E id \in Flows, kind \in Kinds, user \in UserStates : SetRequestState(id, kind, user)
    \/ \E stateString \in StateStrings : ParseRequestState(stateString)
    \/ \E name \in StateKeyNames, stateString \in StateStrings : GenerateKey(name, stateString)

SpecCodec == Init /\ [][NextCodec]_vars

----------------------------------------------------------------------------
(* The temporary-cache interface used directly, on the fixed-name items *)

TempNames == {ORIGIN_URI, INTERACTION_STATUS_KEY}
TempValues == {"v1", "v2"}

SetTemporaryCache(name, v) ==
    /\ Done("setTemporaryCache", NoFlow, Null, generateCacheKey(Lit(name)),
            Outcome(setTemporaryCache(cache, Lit(name), Lit(v), TRUE), FALSE, NoRequest))
    /\ UNCHANGED flowVars

SetItem(name, v) ==
    /\ Done("setItem", NoFlow, Null, generateCacheKey(Lit(name)),
            Outcome(setItem(cache, generateCacheKey(Lit(name)), Lit(v)), FALSE, NoRequest))
    /\ UNCHANGED flowVars

GetTemporaryCache(name) ==
    /\ Done("getTemporaryCache", NoFlow, Null, generateCacheKey(Lit(name)),
            Returned(cache, getTemporaryCache(cache, Lit(name), TRUE)))
    /\ UNCHANGED flowVars

RemoveItem(name) ==
    /\ Done("removeItem", NoFlow, Null, generateCacheKey(Lit(name)),
            Outcome(removeItem(cache, generateCacheKey(Lit(name))), FALSE, NoRequest))
    /\ UNCHANGED flowVars

NextTemp ==
    \E name \in TempNames :
        \/ \E v \in TempValues : SetTemporaryCache(name, v)
        \/ \E v \in TempValues : SetItem(name, v)
        \/ GetTemporaryCache(name)
        \/ RemoveItem(name)

SpecTemp == Init /\ [][NextTemp]_vars

\* What is recorded of the cookie writes: nothing when mirroring is off
Mirrored(how) == IF storeAuthStateInCookie THEN how ELSE <<>>

\* updateCacheEntries is called while cookie writes may fail.
UpdateCacheEntriesUnder(f) ==
    /\ pc[f] \in {"idle", "begun"}
    /\ nUpdates[f] < MaxUpdates
    /\ \E nonce \in Nonces, a \in Authorities, how \in CookieWrites \X CookieWrites :
          LET state == setRequestState(f, "redirect", "")
              out == updateCacheEntriesUnder(cache, state, Lit(nonce), Lit(a), how)
          IN  /\ Update(out, [Seen("updateCacheEntries", f, state, NoKey, out)
                                  EXCEPT !.mirror = Mirrored(how)])
              /\ fstate' = [fstate EXCEPT ![f] = state]
              /\ fnonce' = [fnonce EXCEPT ![f] = Lit(nonce)]
              /\ fauth' = [fauth EXCEPT ![f] = Lit(a)]
              /\ pc' = [pc EXCEPT ![f] = IF out.threw THEN "done" ELSE "begun"]
    /\ nUpdates' = [nUpdates EXCEPT ![f] = @ + 1]
    /\ UNCHANGED freq

\* setTemporaryCache is called while the cookie write may fail.
SetTemporaryCacheUnder(name, v) ==
    /\ \E how \in CookieWrites :
          LET w == setTemporaryCacheUnder(cache, Lit(name), Lit(v), TRUE, how)
              out == [Outcome(w.c, w.threw, NoRequest) EXCEPT !.str = Lit(v)]
          IN  Update(out, [Seen("setTemporaryCache", NoFlow, Null,
                                generateCacheKey(Lit(name)), out)
                              EXCEPT !.mirror = Mirrored(<<how>>)])
    /\ UNCHANGED flowVars

NextMirror ==
    \/ \E f \in Flows : UpdateCacheEntriesUnder(f)
    \/ \E v \in TempValues : SetTemporaryCacheUnder(ORIGIN_URI, v)

SpecMirror == Init /\ [][NextMirror]_vars

----------------------------------------------------------------------------
(* Properties of the request correlation cache *)

AllKeys == (DOMAIN storage) \cup (DOMAIN cookies)

KeysContaining(id) == {key \in AllKeys : Contains(key, Lit(id))}

\* C1: after resetRequestCache(state), whatever number of updateCacheEntries
\* calls were made under the state's correlation id, no key containing that id
\* is left in the primary store or in the cookies.
C1_ResetLeavesNoKeyOfId ==
    (last.op = "resetRequestCache" /\ ~last.threw /\ stateParses(last.state))
        => KeysContaining(parseRequestState(last.state).id) = {}

\* C1 witness: a reset with mirroring on, after the most updateCacheEntries
\* calls for that id, while another id's items are still in both stores.
C1_Witness ==
    /\ last.op = "resetRequestCache"
    /\ ~last.threw
    /\ storeAuthStateInCookie
    /\ nUpdates[last.flow] = MaxUpdates
    /\ \E g \in Flows \ {last.flow} :
          /\ KeysContaining(g) \cap DOMAIN storage # {}
          /\ KeysContaining(g) \cap DOMAIN cookies # {}

StoredAt(m, key) == IF key \in DOMAIN m THEN m[key] ELSE Null

\* What a flow wrote is still what its lookups find.
Intact(f) ==
    /\ getTemporaryCache(cache, generateStateKey(fstate[f]), FALSE) = fstate[f]
    /\ getTemporaryCache(cache, generateNonceKey(fstate[f]), FALSE) = fnonce[f]
    /\ getTemporaryCache(cache, generateAuthorityKey(fstate[f]), FALSE) = fauth[f]
    /\ pc[f] = "cached" => getTemporaryCache(cache, Lit(REQUEST_PARAMS), TRUE) = freq[f]

FlowOps ==
    {"updateCacheEntries", "cacheCodeRequest", "getCachedRequest",
     "resetRequestCache", "cleanRequestByState"}

\* C2: with several flows in flight, no operation performed for one flow
\* overwrites or removes a temporary item (state, nonce, authority, cached
\* request parameters) that another in-flight flow still needs.
C2_FlowsDisjointByKey ==
    [][\A f \in Flows :
          (pc[f] \in InFlight /\ Intact(f) /\ last'.op \in FlowOps /\ last'.flow # f)
              => (pc'[f] \in InFlight /\ Intact(f)')]_vars

\* C10: updateCacheEntries writes the state, nonce and authority items under
\* the keys of the state's correlation id, and with cookie mirroring on each
\* of the three is also in the cookies.
C10_UpdateWritesThreeMirrored ==
    (last.op = "updateCacheEntries" /\ ~last.threw) =>
        LET written ==
                [key \in {generateStateKey(last.state), generateNonceKey(last.state),
                          generateAuthorityKey(last.state)} |->
                    IF key = generateStateKey(last.state) THEN last.state
                    ELSE IF key = generateNonceKey(last.state) THEN fnonce[last.flow]
                    ELSE fauth[last.flow]]
        IN  /\ \A key \in DOMAIN written :
                  /\ Contains(key, Lit(parseRequestState(last.state).id))
                  /\ StoredAt(storage, key) = written[key]
            /\ storeAuthStateInCookie =>
                  \A key \in DOMAIN written : StoredAt(cookies, key) = written[key]

\* The state, nonce and authority keys of a flow's correlation id
ItemKeys(f) ==
    {generateStateKey(fstate[f]), generateNonceKey(fstate[f]),
     generateAuthorityKey(fstate[f])}

\* C11: getCachedRequest fails with the token-request-cache error whenever
\* the cached request parameters are absent, and whenever the request carries
\* no authority and the authority item of the state's correlation id is
\* absent; it never returns a request whose authority is missing.
C11_MissingItemIsAnError ==
    [][\A f \in Flows :
          (pc[f] = "cached" /\ pc'[f] = "got" /\ last'.op = "getCachedRequest")
              => LET params == getTemporaryCache(cache, Lit(REQUEST_PARAMS), TRUE)
                     authority ==
                         getTemporaryCache(cache, generateAuthorityKey(fstate[f]), FALSE)
                 IN  /\ isEmpty(params) => last'.threw
                     /\ (/\ requestDecodes(params)
                         /\ isEmpty(decodeRequest(params).authority)
                         /\ isEmpty(authority)) => last'.threw
                     /\ ~last'.threw => ~isEmpty(last'.ret.authority)]_vars

\* C12: with the items of two correlation ids in the cache, resetRequestCache
\* for the first removes the first's state, nonce and authority items from
\* both stores and leaves the second's three items where they were, with the
\* values they had.
C12_ResetLeavesOtherIds ==
    [][\A f \in Flows :
          (pc[f] \in InFlight /\ pc'[f] = "done" /\ last'.op = "resetRequestCache")
              => /\ \A key \in ItemKeys(f) :
                        key \notin (DOMAIN storage') \cup (DOMAIN cookies')
                 /\ \A g \in Flows \ {f} :
                        pc[g] \in InFlight =>
                            \A key \in ItemKeys(g) :
                                /\ StoredAt(storage', key) = StoredAt(storage, key)
                                /\ StoredAt(cookies', key) = StoredAt(cookies, key)]_vars

\* C12 witness: a reset for one id, with mirroring on, after which the other
\* id's state, nonce and authority items are all still found with the values
\* written for it.
C12_Witness ==
    /\ last.op = "resetRequestCache"
    /\ storeAuthStateInCookie
    /\ KeysContaining(last.flow) = {}
    /\ \E g \in Flows \ {last.flow} :
          /\ pc[g] \in InFlight
          /\ StoredAt(storage, generateStateKey(fstate[g])) = fstate[g]
          /\ StoredAt(storage, generateNonceKey(fstate[g])) = fnonce[g]
          /\ StoredAt(storage, generateAuthorityKey(fstate[g])) = fauth[g]
          /\ StoredAt(cookies, generateNonceKey(fstate[g])) = fnonce[g]

\* C17: after cleanRequestByInteractionType(kind) no state, nonce or authority
\* item is left, in either store, for any request whose state item decoded to
\* that kind, however many there were; the three items of every request of
\* another kind are where they were, with the values they had.
C17_SweepRemovesKindOnly ==
    [][(last'.op = "cleanRequestByInteractionType" /\ ~last'.threw)
          => \A f \in Flows :
                fstate[f] # Null =>
                    IF LET value == getItem(cache, generateStateKey(fstate[f]))
                       IN  /\ stateParses(value)
                           /\ parseRequestState(value).interactionType = last'.kind
                    THEN \A key \in ItemKeys(f) :
                            key \notin (DOMAIN storage') \cup (DOMAIN cookies')
                    ELSE \A key \in ItemKeys(f) :
                            /\ StoredAt(storage', key) = StoredAt(storage, key)
                            /\ StoredAt(cookies', key) = StoredAt(cookies, key)]_vars

\* C17 witness: a sweep, with mirroring on, that reset the requests of two
\* correlation ids.
C17_Witness ==
    /\ last.op = "cleanRequestByInteractionType"
    /\ ~last.threw
    /\ storeAuthStateInCookie
    /\ Cardinality(last.swept) = 2
    /\ \A f \in Flows : KeysContaining(f) = {}

CallerState(f) == parseRequestState(fstate[f]).userRequestState

\* C24: temporary cache keys are namespaced by the correlation id and not by
\* the caller's state: two requests in flight with the same caller state and
\* different correlation ids have distinct state, nonce and authority keys,
\* and the lookups of each return its own nonce and authority.
C24_KeysNamespacedById ==
    /\ \A f, g \in Flows :
          (/\ f # g
           /\ pc[f] \in InFlight
           /\ pc[g] \in InFlight
           /\ CallerState(f) = CallerState(g))
              => /\ ItemKeys(f) \cap ItemKeys(g) = {}
                 /\ Cardinality(ItemKeys(f) \cup ItemKeys(g)) = 6
    /\ (last.op = "getCachedAuthority" /\ pc[last.flow] \in InFlight)
           => last.str = fauth[last.flow]
    /\ (last.op = "getTemporaryCache" /\ last.flow \in Flows /\ pc[last.flow] \in InFlight)
           => last.str = fnonce[last.flow]

\* C24 witness: two requests with the same caller state and different nonces
\* and authorities are in flight, and the lookup of one returned its own
\* authority.
C24_Witness ==
    /\ \A f \in Flows : pc[f] \in InFlight
    /\ CallerState("f1") = CallerState("f2")
    /\ CallerState("f1") # Null
    /\ fauth["f1"] # fauth["f2"]
    /\ fnonce["f1"] # fnonce["f2"]
    /\ last.op = "getCachedAuthority"
    /\ last.str = fauth[last.flow]

\* C25: a cookie write that fails during setTemporaryCache or
\* updateCacheEntries raises nothing to the caller, and the writes to the
\* primary store (of the item; of the state, nonce and authority items) all
\* still take place.
C25_MirrorFailureNotFatal ==
    /\ (/\ last.op = "updateCacheEntries"
        /\ \E i \in 1..Len(last.mirror) : last.mirror[i] # "stored")
           => /\ ~last.threw
              /\ StoredAt(storage, generateStateKey(last.state)) = last.state
              /\ StoredAt(storage, generateNonceKey(last.state)) = fnonce[last.flow]
              /\ StoredAt(storage, generateAuthorityKey(last.state)) = fauth[last.flow]
    /\ (/\ last.op = "setTemporaryCache"
        /\ \E i \in 1..Len(last.mirror) : last.mirror[i] # "stored")
           => /\ ~last.threw
              /\ StoredAt(storage, last.key) = last.str

\* C29: a sweep by interaction type skips a key of the request-state
\* namespace whose value is missing or does not decode: it does not fail, and
\* every well-formed request of the type is still cleaned up.
C29_SweepSkipsMalformed ==
    [][last'.op = "cleanRequestByInteractionType"
          => /\ ~last'.threw
             /\ \A f \in Flows :
                   (/\ fstate[f] # Null
                    /\ LET value == getItem(cache, generateStateKey(fstate[f]))
                       IN  /\ stateParses(value)
                           /\ parseRequestState(value).interactionType = last'.kind)
                      => \A key \in ItemKeys(f) :
                            key \notin (DOMAIN storage') \cup (DOMAIN cookies')]_vars

\* C30: cleanRequestByState leaves no item of the request's correlation id
\* behind: the state, nonce and authority items of that id are gone after the
\* call, also when the request-state item was no longer in the primary store.
C30_CleanupLeavesNoOrphan ==
    [][last'.op = "cleanRequestByState"
          => \A key \in ItemKeys(last'.flow) :
                key \notin (DOMAIN storage') \cup (DOMAIN cookies')]_vars

\* C36: a getCachedRequest that succeeds leaves no request-params item in
\* the primary store or in the cookies; a getCachedRequest that follows a
\* successful one, or finds no request-params item, fails; and one that fails
\* leaves the state, nonce and authority items of every request as they were.
C36_GetCachedRequestConsumes ==
    [][\A f \in Flows :
          (pc[f] = "cached" /\ pc'[f] = "got")
             => /\ ~last'.threw
                      => generateCacheKey(Lit(REQUEST_PARAMS))
                            \notin (DOMAIN storage') \cup (DOMAIN cookies')
                /\ (\/ last.op = "getCachedRequest" /\ ~last.threw
                    \/ generateCacheKey(Lit(REQUEST_PARAMS)) \notin AllKeys)
                      => last'.threw
                /\ last'.threw
                      => \A g \in Flows : fstate[g] # Null
                            => \A key \in ItemKeys(g) :
                                  /\ StoredAt(storage', key) = StoredAt(storage, key)
                                  /\ StoredAt(cookies', key) = StoredAt(cookies, key)]_vars

\* C36 witness: both requests have read the cached request, the second read
\* failed, and the items the first request was begun with are in the store.
C36_Witness ==
    /\ \A f \in Flows : pc[f] = "got"
    /\ last.op = "getCachedRequest"
    /\ last.threw
    /\ storeAuthStateInCookie
    /\ \E f \in Flows \ {last.flow} : ItemKeys(f) \subseteq DOMAIN storage

----------------------------------------------------------------------------
(* Properties of the temporary-cache lookup *)

\* C9 as stated: the primary store is read first and its value wins whenever
\* it has one; the cookie is only a fallback.
C9_StorageFirstLookup ==
    last.op = "getTemporaryCache" =>
        last.str = IF StoredAt(storage, last.key) # Null
                   THEN StoredAt(storage, last.key)
                   ELSE IF storeAuthStateInCookie
                        THEN StoredAt(cookies, last.key)
                        ELSE Null

\* C9 amended: with mirroring on the cookie is read first and its value is
\* returned when it is not empty; otherwise, and always without mirroring, the
\* primary store's value (or null) is returned.
C9_CookieFirstLookup ==
    last.op = "getTemporaryCache" =>
        last.str = IF storeAuthStateInCookie /\ StoredAt(cookies, last.key) # Null
                   THEN StoredAt(cookies, last.key)
                   ELSE StoredAt(storage, last.key)

\* C9 witness: a lookup of a key for which both stores hold a value, and the
\* two values differ.
C9_Witness ==
    /\ last.op = "getTemporaryCache"
    /\ storeAuthStateInCookie
    /\ StoredAt(storage, last.key) # Null
    /\ StoredAt(cookies, last.key) # Null
    /\ StoredAt(storage, last.key) # StoredAt(cookies, last.key)
    /\ last.str = StoredAt(cookies, last.key)

----------------------------------------------------------------------------
(* Properties of the Authority *)

Requested(r, kind) == {i \in 1..Len(rlog[r]) : rlog[r][i][1] = kind}

\* The call named by alast has just made its trust decision.
TrustDecided ==
    \/ alast.op = "validateAndSetPreferredNetwork"
    \/ alast.op = "resolveEndpointsAsync" /\ alast.err = "untrusted_authority"

\* C3: when the host is not in the trust registry after at most one lazy
\* fetch of the trusted-host list, resolveEndpointsAsync fails with the
\* untrusted-authority error, has requested no OpenID configuration, and the
\* Authority is not discovery-complete.
C3_UntrustedFailsClosed ==
    (TrustDecided /\ ~IsInTrustedHostList(registry, rhost[alast.call])) =>
        /\ alast.op = "resolveEndpointsAsync"
        /\ alast.err = "untrusted_authority"
        /\ rpc[alast.call] = "failed"
        /\ Requested(alast.call, "openIdConfiguration") = {}
        /\ Cardinality(Requested(alast.call, "trustedHostList")) <= 1
        /\ ~discoveryComplete

\* C3 witness: the call fetched the trusted-host list once, the list that
\* came back does not hold the host, and the call failed.
C3_Witness ==
    /\ alast.op = "resolveEndpointsAsync"
    /\ alast.err = "untrusted_authority"
    /\ Cardinality(Requested(alast.call, "trustedHostList")) = 1
    /\ registry # EmptyRegistry
    /\ ~IsInTrustedHostList(registry, rhost[alast.call])

\* C4: until a resolveEndpointsAsync call has returned, every endpoint getter
\* fails with the discovery-incomplete error and returns no value.
C4_NoEndpointBeforeDiscovery ==
    (alast.op \in EndpointNames /\ ~succeeded) =>
        /\ alast.err = "endpoints_resolution_error"
        /\ alast.str = Null

\* C4 witness: a getter is read while a call is waiting for the OpenID
\* configuration, and fails.
C4_Witness ==
    /\ alast.op \in EndpointNames
    /\ ~succeeded
    /\ \E r \in Calls : rpc[r] = "awaitOpenIdConfiguration"
    /\ alast.err = "endpoints_resolution_error"

HasPlaceholder(url) == Contains(url, Lit("{tenant}")) \/ Contains(url, Lit("{tenantid}"))

\* C5: after discovery every endpoint the Authority returns (authorize, token,
\* end-session, device-code, signing audience) has each {tenant}/{tenantid}
\* placeholder replaced by the tenant, so none still contains a placeholder.
C5_NoPlaceholderInEndpoints ==
    (alast.op \in EndpointNames /\ alast.err = "") => ~HasPlaceholder(alast.str)

\* C18: over any execution, concurrent resolveEndpointsAsync calls included,
\* the registry is populated from the network at most once by a fetch that
\* leaves it non-empty, and no trusted-host fetch is issued once the registry
\* is non-empty.
C18_RegistryPopulatedOnce ==
    [][/\ nPopulated' <= 1
       /\ registry # EmptyRegistry =>
              \A r \in Calls :
                  rpc'[r] = "awaitTrustedHostList" => rpc[r] = "awaitTrustedHostList"]_vars

C20_DiscoveryAtPreferredNetwork ==
    [][\A r \in Calls :
          /\ (rpc[r] # "validated" /\ rpc'[r] = "validated")
                 => LET preferred ==
                            getCloudDiscoveryMetadata(registry', rhost'[r]).preferred_network
                    IN  canonicalAuthority' =
                            IF rhost'[r] # preferred
                            THEN UrlString(preferred, tenant)
                            ELSE canonicalAuthority
          /\ (rpc[r] = "validated" /\ rpc'[r] = "awaitOpenIdConfiguration")
                 => rlog'[r][Len(rlog'[r])] =
                        <<"openIdConfiguration",
                          getCloudDiscoveryMetadata(registry, rhost[r]).preferred_network>>]_vars

\* C20 witness: a call that read the alias host has requested the OpenID
\* configuration from the preferred network host, the tenant being adfs.
C20_Witness ==
    \E r \in Calls :
        /\ rhost[r] = AliasHost
        /\ rpc[r] = "awaitOpenIdConfiguration"
        /\ rlog[r][Len(rlog[r])] = <<"openIdConfiguration", PreferredHost>>
        /\ canonicalAuthority = UrlString(PreferredHost, "adfs")

\* The fetches of the trusted-host list a call has issued
Fetches(r) == {i \in 1..Len(rlog[r]) : rlog[r][i][1] = "trustedHostList"}

\* C27: a resolveEndpointsAsync call issues exactly one fetch of the
\* trusted-host list if the registry is empty when it starts and none if it
\* is not, issues no further one later, and decides on trust only when the
\* fetch, if any, has completed.
C27_OneFetchPerCall ==
    [][\A r \in Calls :
          /\ (nResolves' # nResolves /\ alast'.call = r)
                 => IF registry = EmptyRegistry
                    THEN /\ Cardinality(Fetches(r)') = 1
                         /\ rpc'[r] = "awaitTrustedHostList"
                    ELSE /\ Fetches(r)' = {}
                         /\ rpc'[r] \in {"validated", "failed"}
          /\ ~(nResolves' # nResolves /\ alast'.call = r)
                 => Cardinality(Fetches(r)') = Cardinality(Fetches(r))
          /\ (rpc[r] = "awaitTrustedHostList" /\ rpc'[r] # rpc[r])
                 => /\ rpc'[r] \in {"validated", "failed"}
                    /\ alast'.call = r
                    /\ alast'.op \in {"validateAndSetPreferredNetwork", "resolveEndpointsAsync"}]_vars

\* C27 witness: one call fetched the list and was then found untrusted, and
\* a later call, the registry holding the cloud by then, fetched nothing.
C27_Witness ==
    \E r1, r2 \in Calls :
        /\ Cardinality(Fetches(r1)) = 1
        /\ rpc[r1] = "failed"
        /\ Fetches(r2) = {}
        /\ rpc[r2] = "done"
        /\ registry # EmptyRegistry

\* C28: a discovery attempt that fails, the fetch of the OpenID configuration
\* failing or the document that comes back being empty, is surfaced to the
\* caller of resolveEndpointsAsync as an error, the call failing, and does
\* not make the Authority discovery-complete.
C28_FailedDiscoverySurfaced ==
    [][(/\ alast'.op = "resolveEndpointsAsync"
        /\ rpc[alast'.call] = "awaitOpenIdConfiguration"
        /\ alast'.err # "" \/ alast'.body = NoDoc)
           => /\ alast'.err # ""
              /\ rpc'[alast'.call] = "failed"
              /\ discoveryComplete' => discoveryComplete]_vars

\* C34: discoveryComplete() changes only in the step that completes a
\* resolveEndpointsAsync call whose OpenID configuration request was issued,
\* which is after its host passed trust validation; the step in which a call
\* fails, like every step of a call before its completion, leaves
\* discoveryComplete() as it was.
C34_DiscoveryOnlyAfterTrust ==
    [][/\ discoveryComplete' # discoveryComplete
          => \E r \in Calls :
                /\ rpc[r] = "awaitOpenIdConfiguration"
                /\ rpc'[r] = "done"
                /\ IsInTrustedHostList(registry, rhost[r])
                /\ \E i \in 1..Len(rlog[r]) : rlog[r][i][1] = "openIdConfiguration"
       /\ \A r \in Calls :
             (rpc[r] # "failed" /\ rpc'[r] = "failed")
                => discoveryComplete' = discoveryComplete]_vars

\* C34 witness: a call failed at its OpenID configuration request after
\* another had completed discovery, and discovery is still complete.
C34_Witness ==
    /\ discoveryComplete
    /\ alast.op = "resolveEndpointsAsync"
    /\ alast.err = "network_error"
    /\ \E r \in Calls : rpc[r] = "failed"

\* C35: once discoveryComplete() is true it stays true over every later step
\* of every resolveEndpointsAsync call, however the call ends.
C35_DiscoveryCompleteIsStable ==
    [][discoveryComplete => discoveryComplete']_vars

\* C21: isAuthorityAlias(host) returns true exactly when host is the
\* Authority's canonical host or is among the aliases the registry holds for
\* the canonical host's cloud, and returns false otherwise, whatever the
\* registry holds.
C21_AliasExactly ==
    alast.op = "isAuthorityAlias"
        => /\ alast.err = ""
           /\ alast.ret <=>
                  \/ alast.host = HostNameAndPort(canonicalAuthority)
                  \/ /\ IsInTrustedHostList(registry, HostNameAndPort(canonicalAuthority))
                     /\ alast.host \in getCloudDiscoveryMetadata(
                            registry, HostNameAndPort(canonicalAuthority)).aliases

\* C22: constructing an Authority from a string that does not parse as an
\* absolute URI fails and yields no Authority; constructing one from a valid
\* URL makes no network request and yields an Authority that is not
\* discovery-complete.
C22_ConstructionValidatesOffline ==
    [][alast'.op = "constructor"
          => /\ rlog' = rlog
             /\ registry' = registry
             /\ \A r \in Calls : rpc'[r] = "idle"
             /\ IF validateAsUri(alast'.str)
                THEN /\ alast'.err = ""
                     /\ canonicalAuthority' = alast'.str
                     /\ ~discoveryComplete'
                ELSE /\ alast'.err = "url_parse_error"
                     /\ canonicalAuthority' = Null]_vars

\* C22 witness: a malformed string was refused after an Authority had been
\* discovered, and no Authority is left.
C22_Witness ==
    /\ alast.op = "constructor"
    /\ alast.err = "url_parse_error"
    /\ canonicalAuthority = Null
    /\ \E r \in Calls : rlog[r] # <<>>

----------------------------------------------------------------------------
(* Properties of handleCodeResponse *)

\* The events of a kind in the record of f's handler
At(f, ev) == {i \in 1..Len(handling[f].log) : handling[f].log[i].ev = ev}

\* C13: handleCodeResponse rejects an empty or null fragment with the
\* empty-hash error before it has looked anything up in the cache, changed the
\* authority of the token client or started a token exchange.
C13_EmptyHashRejectedFirst ==
    \A f \in Flows :
        (handling[f].pc # "idle" /\ isEmpty(handling[f].locationHash))
            => /\ handling[f].pc = "failed"
               /\ handling[f].err = "hash_empty_error"
               /\ handling[f].log = <<>>
               /\ handling[f].client = HostNameAndPort(canonicalAuthority)
               /\ pc[f] = "cached"

\* C13 witness: an empty fragment was rejected while the state, nonce and
\* authority items of the request are all still in the cache.
C13_Witness ==
    \E f \in Flows :
        /\ handling[f].err = "hash_empty_error"
        /\ handling[f].pc = "failed"
        /\ ItemKeys(f) \subseteq DOMAIN storage

\* C14: when the payload reports a cloud instance host that is not an alias
\* of the Authority, a new Authority is created for that host and the token
\* client is switched to it before the token exchange is called; the exchange
\* is called with the cached request and the payload; the Authority the
\* handler was given is as it was; and for an alias, or no reported host, no
\* new Authority is created.
C14_NewAuthorityBeforeExchange ==
    /\ canonicalAuthority = UrlString(PreferredHost, "common")
    /\ tenantDiscoveryResponse = TenantedDoc
    /\ \A f \in Flows :
          LET h == handling[f]
              host == h.payload.cloud_instance_host_name
              alias == host \in getCloudDiscoveryMetadata(
                                    registry, HostNameAndPort(canonicalAuthority)).aliases
          IN  /\ (host = "" \/ alias)
                     => /\ At(f, "createDiscoveredInstance") = {}
                        /\ At(f, "updateAuthority") = {}
                        /\ h.client \in {"", HostNameAndPort(canonicalAuthority)}
              /\ (host # "" /\ ~alias)
                     => \A i \in At(f, "acquireToken") :
                            /\ h.client = host
                            /\ h.log[i].host = host
                            /\ \E j \in At(f, "createDiscoveredInstance"),
                                  k \in At(f, "updateAuthority") :
                                   /\ j < k
                                   /\ k < i
                                   /\ h.log[j].host = host
                                   /\ h.log[k].host = host
              /\ \A i \in At(f, "acquireToken") :
                     /\ h.log[i].request = h.request
                     /\ h.log[i].payload = h.payload
                     /\ \E g \in Flows :
                            /\ freq[g] # Null
                            /\ h.request.tag = decodeRequest(freq[g]).tag

\* C14 witness: a response that reported the host of another cloud has been
\* handled to the end, the exchange having been made at the new Authority.
C14_Witness ==
    \E f \in Flows :
        /\ handling[f].pc = "done"
        /\ handling[f].payload.cloud_instance_host_name = OtherHost
        /\ handling[f].client = OtherHost
        /\ At(f, "createDiscoveredInstance") # {}
        /\ At(f, "acquireToken") # {}

\* C15: a response whose nonce differs from the nonce cached for its
\* correlation id is rejected, and the token exchange is never called for it.
C15_NonceMismatchNotExchanged ==
    \A f \in Flows :
        (/\ handling[f].pc # "idle"
         /\ ~isEmpty(handling[f].locationHash)
         /\ handling[f].payload.nonce # fnonce[f])
            => /\ handling[f].pc = "failed"
               /\ handling[f].err \in
                      {"nonce_mismatch", "state_not_found", "token_request_cache_error"}
               /\ At(f, "acquireToken") = {}

\* C15 witness: a response was rejected for its nonce, the cached nonce being
\* that of the request.
C15_Witness ==
    \E f \in Flows :
        /\ handling[f].err = "nonce_mismatch"
        /\ handling[f].payload.nonce # fnonce[f]
        /\ handling[f].payload.state = fstate[f]

\* The handler of f has decoded the state of a response
Decoded(f) ==
    /\ handling[f].pc # "idle"
    /\ ~isEmpty(handling[f].locationHash)
    /\ stateParses(handling[f].payload.state)

\* C16: every handling of a response that got as far as decoding the state
\* ends, by success or by failure, with no state, nonce or authority item of
\* the request's correlation id left in either store: at any moment it is
\* either waiting on a promise that has yet to settle or has ended with the
\* items gone.
C16_CleanupOnEveryPath ==
    \A f \in Flows :
        Decoded(f)
            => \/ handling[f].pc \in {"awaitAuthority", "awaitToken"}
               \/ /\ handling[f].pc \in {"done", "failed"}
                  /\ ItemKeys(f) \cap AllKeys = {}

\* C16 witness: the token exchange failed and the items are gone.
C16_Witness ==
    \E f \in Flows :
        /\ handling[f].err = "token_exchange_error"
        /\ handling[f].pc = "failed"
        /\ ItemKeys(f) \cap AllKeys = {}
        /\ \E g \in Flows \ {f} : ItemKeys(g) \subseteq DOMAIN storage

----------------------------------------------------------------------------
(* The entity store in use *)

EntityUntouched ==
    UNCHANGED <<cookies, storeAuthStateInCookie, last, flowVars, authVars, handling>>

\* One of the seven setters is called.
WriteEntity(kind) ==
    /\ nWrites < MaxWrites
    /\ \E e \in EntitiesOf(kind), k \in SuppliedKeys(kind) :
          /\ storage' = setEntity(cache, kind, k, e).s
          /\ elast' = EntityOp("write", kind, entityKey(kind, k, e), e, Absent)
    /\ nWrites' = nWrites + 1
    /\ EntityUntouched

\* Something that is not an entity is stored under an entity key.
WriteRaw(key) ==
    /\ nWrites < MaxWrites
    /\ \E text \in BadTexts :
          /\ storage' = setItem(cache, key, text).s
          /\ elast' = EntityOp("setItem", "", key, NoFields, Absent)
    /\ nWrites' = nWrites + 1
    /\ EntityUntouched

\* One of the seven getters is called on a key of the store.
ReadEntity(kind) ==
    /\ \E key \in DOMAIN storage :
          elast' = EntityOp("read", kind, key, NoFields, getEntity(cache, kind, key))
    /\ UNCHANGED <<storage, nWrites>>
    /\ EntityUntouched

NextEntity ==
    \/ \E kind \in EntityKinds : WriteEntity(kind)
    \/ \E key \in CorruptibleKeys : WriteRaw(key)
    \/ \E kind \in EntityKinds : ReadEntity(kind)

InitE == NoRequests /\ NoAuthority

SpecEntity == InitE /\ [][NextEntity]_vars

----------------------------------------------------------------------------
(* Properties of the entity store *)

IsBadText(text) ==
    \/ ~JSONparses(text)
    \/ JSONparse(text).type # "object"

\* C6: for every entity kind, reading a key whose text is not parseable JSON,
\* or is JSON for something other than an object, returns absent and does
\* not raise.
C6_MalformedReadsAbsent ==
    (elast.op = "read" /\ IsBadText(StoredAt(storage, elast.key))) =>
        elast.result = Absent

\* C6 witness: every kind's getter has been tried on every text that is not
\* the JSON of an object; this one read text that is not JSON at all.
C6_Witness ==
    /\ elast.op = "read"
    /\ elast.kind = "Throttling"
    /\ ~JSONparses(StoredAt(storage, elast.key))
    /\ elast.result = Absent

\* The kind and key under which the setters store e, if e is in the model
WrittenAs(kind, key, e) ==
    /\ e \in EntitiesOf(kind)
    /\ \E k \in SuppliedKeys(kind) : key = entityKey(kind, k, e)

C8_KeyDerivedFromEntityOnly ==
    [][(/\ elast.op = "write"
        /\ elast'.op = "write"
        /\ elast'.kind = elast.kind
        /\ elast'.entity = elast.entity)
            => elast'.key = elast.key]_vars

\* C8 amended: account, id token, access token, refresh token and app
\* metadata writes store the entity under the key derived from its own
\* identity fields; server telemetry and throttling writes store it under the
\* key the caller passes.
C8_KeyDerivedExceptCallerKeyed ==
    elast.op = "write" =>
        /\ StoredAt(storage, elast.key) = JSONstringify(elast.entity)
        /\ elast.kind \notin KeyedByCaller =>
              elast.key = generateEntityKey(elast.kind, elast.entity)
        /\ elast.kind \in KeyedByCaller => elast.key \in SuppliedKeys(elast.kind)

\* C8 witness: the same throttling entity has been written under two keys.
C8_Witness ==
    /\ elast.op = "write"
    /\ elast.kind = "Throttling"
    /\ \E k \in SuppliedKeys("Throttling") \ {elast.key} :
          StoredAt(storage, k) = JSONstringify(elast.entity)

\* The fields of an entity its key is derived from
IdentityFields(kind) ==
    CASE kind = "Account" -> {"homeAccountId", "environment", "realm"}
      [] kind = "IdToken" ->
            {"homeAccountId", "environment", "credentialType", "clientId", "realm"}
      [] kind = "AccessToken" ->
            {"homeAccountId", "environment", "credentialType", "clientId", "realm", "target"}
      [] kind = "RefreshToken" ->
            {"homeAccountId", "environment", "credentialType", "clientId", "familyId"}
      [] kind = "AppMetadata" -> {"environment", "clientId"}
      [] OTHER -> {}

----------------------------------------------------------------------------
(* resetRequestCache on a store that holds requests, fixed-name items and
   durable entities *)

\* TemporaryCacheKeys of the items that carry no correlation id
FixedNames == {REQUEST_PARAMS, ORIGIN_URI, URL_HASH, INTERACTION_STATUS_KEY}

FixedKeys == {generateCacheKey(Lit(name)) : name \in FixedNames}

\* The state arguments of a reset: none, a state of a request, a caller state
\* that is not a library state
ResetArgs == {Null, Lit("S1")} \cup {setRequestState(f, "redirect", "") : f \in Flows}

DurableKinds == {"Account", "AccessToken"}

\* resetRequestCache is called with the state its caller holds.
ResetRequestCacheWith(stateString) ==
    /\ Done("resetRequestCache", NoFlow, stateString, NoKey,
            resetRequestCache(cache, stateString))
    /\ UNCHANGED flowVars

NextReset ==
    \/ UpdateCacheEntries("f1")
    \/ \E name \in FixedNames : SetTemporaryCache(name, "v1")
    \/ \E kind \in DurableKinds : WriteEntity(kind)
    \/ \E stateString \in ResetArgs : ResetRequestCacheWith(stateString)

SpecReset == Init /\ [][NextReset]_vars

\* The step is a call of op: the entity store was not used in it
Called(op) == last'.op = op /\ UNCHANGED entVars

\* C31: every resetRequestCache call removes the four fixed-name temporary
\* items, whatever its state argument; with an empty state it removes nothing
\* else: every other key of the primary store and of the cookies keeps its
\* value.
C31_ResetRemovesFixedItems ==
    [][Called("resetRequestCache")
          => /\ FixedKeys \cap ((DOMAIN storage') \cup (DOMAIN cookies')) = {}
             /\ isEmpty(last'.state)
                   => /\ \A key \in (DOMAIN storage) \ FixedKeys :
                            StoredAt(storage', key) = storage[key]
                      /\ \A key \in (DOMAIN cookies) \ FixedKeys :
                            StoredAt(cookies', key) = cookies[key]]_vars

----------------------------------------------------------------------------
(* clear *)

\* CacheManager.removeAllAccounts: every entry that reads as an account
removeAllAccounts(c) ==
    removeItems(c, {key \in getKeys(c) : getEntity(c, "Account", key).found})

\* CacheManager.removeAppMetadata: every entry that reads as app metadata
removeAppMetadata(c) ==
    removeItems(c, {key \in getKeys(c) : getEntity(c, "AppMetadata", key).found})

clear(c) ==
    LET c2 == removeAppMetadata(removeAllAccounts(c))
    IN  removeItems(c2, {key \in getKeys(c2) :
            Contains(key, Lit(CACHE_PREFIX)) \/ Contains(key, Lit(clientId))})

Clear ==
    /\ Done("clear", NoFlow, Null, NoKey, Outcome(clear(cache), FALSE, NoRequest))
    /\ UNCHANGED flowVars

TokenKinds == {"IdToken", "AccessToken", "RefreshToken"}

ClearedKinds == {"Account", "AppMetadata", "AccessToken", "RefreshToken", "Throttling"}

NextClear ==
    \/ UpdateCacheEntries("f1")
    \/ SetTemporaryCache(ORIGIN_URI, "v1")
    \/ \E kind \in ClearedKinds : WriteEntity(kind)
    \/ Clear

SpecClear == Init /\ [][NextClear]_vars

\* An entry of the store reads as an entity of one of the kinds
ReadsAs(c, kinds, key) == \E kind \in kinds : getEntity(c, kind, key).found

\* C32: after clear() the primary store holds no account, no app metadata and
\* no temporary entry of this client; the token credentials it held are still
\* there; and every key that contains neither the cache prefix nor the client
\* id and is not an account or app metadata keeps its value.
C32_ClearExceptTokens ==
    [][Called("clear")
          => /\ \A key \in DOMAIN storage' :
                   /\ ~ReadsAs(cache', {"Account", "AppMetadata"}, key)
                   /\ ~startsWith(key, <<T(CACHE_PREFIX), T("."), T(clientId)>>)
             /\ \A key \in DOMAIN storage :
                   ReadsAs(cache, TokenKinds, key)
                      => StoredAt(storage', key) = storage[key]
             /\ \A key \in DOMAIN storage :
                   (/\ ~Contains(key, Lit(CACHE_PREFIX))
                    /\ ~Contains(key, Lit(clientId))
                    /\ ~ReadsAs(cache, {"Account", "AppMetadata"}, key))
                      => StoredAt(storage', key) = storage[key]]_vars

----------------------------------------------------------------------------
(* A request left behind while the cache is used by everything else *)

\* A request of f is begun with no caller state, under the nonce given.
Begin(f, nonce) ==
    /\ UpdateCacheEntries(f)
    /\ fnonce'[f] = Lit(nonce)
    /\ Len(fstate'[f]) = 1

NextAbandoned ==
    \/ nUpdates["f1"] = 0 /\ Begin("f1", "N1")
    \/ Begin("f2", "N2")
    \/ CacheCodeRequest("f2")
    \/ GetCachedRequest("f2")
    \/ GetCachedNonce("f2")
    \/ ResetRequestCache("f2")
    \/ CleanRequestByState("f2")
    \/ CleanRequestByInteractionType("popup")
    \/ WriteEntity("Account")
    \/ ReadEntity("Account")

SpecAbandoned == Init /\ [][NextAbandoned]_vars

\* The step is one that reclaims the items of f: a begin or a cleanup of f
\* itself, or a sweep of its interaction type
Reclaims(f) ==
    \/ nUpdates'[f] # nUpdates[f]
    \/ pc[f] # "done" /\ pc'[f] = "done"
    \/ /\ last' # last
       /\ last'.op = "cleanRequestByInteractionType"
       /\ last'.kind = parseRequestState(fstate[f]).interactionType

\* C33: the state, nonce and authority items of a request stay in the primary
\* store and in the cookies with their values over every step that is not a
\* begin or a cleanup of that request or a sweep of its interaction type:
\* begins and cleanups of other requests, lookups, getCachedRequest, sweeps of
\* other types, entity reads and writes leave them as they are.
C33_AbandonedItemsPersist ==
    [][\A f \in Flows :
          (fstate[f] # Null /\ ~Reclaims(f))
             => \A key \in ItemKeys(f) :
                   /\ StoredAt(storage', key) = StoredAt(storage, key)
                   /\ StoredAt(cookies', key) = StoredAt(cookies, key)]_vars

\* C33 witness: the request f2 has been cleaned up, an account has been
\* written, and the three items of f1 are in the store.
C33_Witness ==
    /\ pc["f1"] = "begun"
    /\ pc["f2"] = "done"
    /\ nWrites > 0
    /\ ItemKeys("f1") \subseteq DOMAIN storage
    /\ storage[generateStateKey(fstate["f1"])] = fstate["f1"]
    /\ storage[generateNonceKey(fstate["f1"])] = fnonce["f1"]

====
